---- MODULE Spec2Model ----
(***************************************************************************)
(* Model of backend/analytics/shipment_anomaly_detector.py:                *)
(* ShipmentAnomalyDetector (six telemetry passes plus the status/id        *)
(* demonstration checks) and analyze_shipment.                             *)
(*                                                                         *)
(* Time is counted in whole minutes.  Positions lie on one meridian, so a  *)
(* coordinate is its latitude in whole degrees and the geodesic distance   *)
(* of two points is proportional to their latitude difference.  A mapping  *)
(* is a record with a `keys' field naming the keys that are present.       *)
(***************************************************************************)
EXTENDS Integers, Sequences, FiniteSets, TLC

VARIABLES
    shipment,   \* the caller's shipment mapping
    detector,   \* the ShipmentAnomalyDetector instance (thresholds, historical_data)
    now,        \* the wall clock read by datetime.now()
    runs,       \* outcomes of the completed detect_anomalies calls, oldest first
    result,     \* what analyze_shipment handed back to its caller
    calls,      \* detect_anomalies calls in progress on the shared detector
    input_dir,  \* the directory process_shipments_directory reads: its files
    output_dir, \* the files written to the output directory, in the order written
    incidents,  \* the rows of the incidents table, in order of arrival
    alerts      \* the rows of the table generate_high_risk_alerts derives from it

vars == <<shipment, detector, now, runs, result, calls, input_dir, output_dir,
          incidents, alerts>>

----------------------------------------------------------------------------
(* Bounds of the model *)

MaxRoute == 3       \* longest actual_route
MaxRuns == 2        \* detect_anomalies calls recorded per behaviour

----------------------------------------------------------------------------
(* Generic helpers *)

Abs(x) == IF x < 0 THEN 0 - x ELSE x

Min2(a, b) == IF a < b THEN a ELSE b

Max2(a, b) == IF a > b THEN a ELSE b

RECURSIVE SeqsUpTo(_, _)
SeqsUpTo(S, n) ==
    IF n = 0 THEN {<<>>}
    ELSE LET shorter == SeqsUpTo(S, n - 1)
         IN  shorter \cup {Append(q, x) : q \in {r \in shorter : Len(r) = n - 1}, x \in S}

Tail2(s) == SubSeq(s, 2, Len(s))

----------------------------------------------------------------------------
(* Timestamps.  kind: "iso" a parsable ISO-8601 string, "bad" a string     *)
(* fromisoformat rejects, "empty" the empty string, "null" None.           *)
(* tz: "naive" no offset, "Z" a Z suffix, "offset" an explicit offset.     *)

Ts(t, tz) == [kind |-> "iso", t |-> t, tz |-> tz]

BadTs == [kind |-> "bad", t |-> 0, tz |-> "naive"]

NullTs == [kind |-> "null", t |-> 0, tz |-> "naive"]

EmptyTs == [kind |-> "empty", t |-> 0, tz |-> "naive"]

\* datetime.fromisoformat(ts.replace('Z', '+00:00'))
ParseTs(ts) ==
    IF ts.kind = "null" THEN [exc |-> "AttributeError", t |-> 0, aware |-> FALSE]
    ELSE IF ts.kind # "iso" THEN [exc |-> "ValueError", t |-> 0, aware |-> FALSE]
    ELSE [exc |-> "none", t |-> ts.t, aware |-> ts.tz # "naive"]

\* dt.isoformat(): an aware datetime prints its offset, never a Z
IsoFormat(dt) == Ts(dt.t, IF dt.aware THEN "offset" ELSE "naive")

\* datetime.now().isoformat(): the clock is read as a naive datetime
NowIso(clock) == Ts(clock, "naive")

\* the truth value Python gives a timestamp in `x or default'
Truthy(ts) == ts.kind \in {"iso", "bad"}

\* subtracting or ordering an aware and a naive datetime is a TypeError
Comparable(a, b) == a.aware = b.aware

----------------------------------------------------------------------------
(* Anomalies.  `check' records the pass that built the anomaly and        *)
(* `evidence' the number its description carries.                          *)

NoLocation == [present |-> FALSE, latitude |-> 0, longitude |-> 0]

\* {'latitude': point['latitude'], 'longitude': point['longitude']}
Location(point) ==
    [present |-> TRUE, latitude |-> point.latitude, longitude |-> point.longitude]

Anomaly(type, severity, timestamp, location, resolved, evidence, check) ==
    [type |-> type, severity |-> severity, timestamp |-> timestamp,
     location |-> location, resolved |-> resolved, evidence |-> evidence,
     check |-> check]

Ret(anoms) == [raised |-> FALSE, anomalies |-> anoms]

Raise == [raised |-> TRUE, anomalies |-> <<>>]

----------------------------------------------------------------------------
(* Route points and waypoints *)

\* latitude in whole degrees; longitude in ten-thousandths of a degree east of
\* the meridian the routes lie along, too little to change a distance in km
Point(keys, lat, ts, speed, temp) ==
    [keys |-> keys, latitude |-> lat, longitude |-> 0, timestamp |-> ts,
     speed |-> speed, temperature |-> temp]

Waypoint(keys, lat) == [keys |-> keys, latitude |-> lat]

\* shipment.get(key, default)
Get(m, key, value, default) == IF key \in m.keys THEN value ELSE default

PlannedRoute(s) == Get(s, "planned_route", s.planned_route, <<>>)

ActualRoute(s) == Get(s, "actual_route", s.actual_route, <<>>)

Status(s) == Get(s, "status", s.status, "")

UpdatedAt(s) == Get(s, "updated_at", s.updated_at, EmptyTs)

----------------------------------------------------------------------------
(* Status/id demonstration checks, detect_anomalies lines 51-78 *)

HazardousTexts == {"Hazardous Chemicals", "HAZARDOUS waste", "hazardous"}

\* 'hazardous' in str(shipment.get('cargo', {})).lower()
CargoMentionsHazardous(s) ==
    /\ "cargo" \in s.keys
    /\ "type" \in s.cargo.keys
    /\ s.cargo.type \in HazardousTexts

\* shipment.get('id', '')[-1] raises IndexError on the empty string
IdLastCharRaises(s) == Get(s, "id", s.id, <<>>) = <<>>

IdLastChar(s) ==
    LET id == Get(s, "id", s.id, <<>>) IN id[Len(id)]

\* the status anomaly stamped with the time of detection
StatusDelayedStampedNow(s) ==
    IF Status(s) = "delayed"
    THEN <<Anomaly("delay", "medium", NowIso(now), NoLocation, FALSE, 0, "demo_status")>>
    ELSE <<>>

StatusDelayedCheck(s) ==
    IF Status(s) = "delayed"
    THEN <<Anomaly("delay", "medium", UpdatedAt(s), NoLocation, FALSE, 0, "demo_status")>>
    ELSE <<>>

HazardousCheck(s) ==
    IF Status(s) = "in_transit" /\ CargoMentionsHazardous(s)
    THEN <<Anomaly("hazardous_material", "high", UpdatedAt(s), NoLocation, FALSE, 0,
                   "demo_hazardous")>>
    ELSE <<>>

IdCheck(s) ==
    IF IdLastChar(s) \in {"1", "2", "3", "4"}
    THEN <<Anomaly("route_deviation", "low", UpdatedAt(s), NoLocation, FALSE, 0, "demo_id")>>
    ELSE <<>>

DemoChecks(s) ==
    IF IdLastCharRaises(s) THEN Raise
    ELSE Ret(StatusDelayedCheck(s) \o HazardousCheck(s) \o IdCheck(s))

----------------------------------------------------------------------------
(* Route-deviation pass, _detect_route_deviations *)

KmPerDegree == 111

ValidLatitude(lat) == lat \in (0 - 90)..90

\* geopy.distance.distance(a, b) raises ValueError for a latitude outside [-90, 90]
DistanceFails(a, b) == ~ValidLatitude(a) \/ ~ValidLatitude(b)

\* geopy.distance.distance(a, b).km along the meridian
DistanceKm(a, b) == KmPerDegree * Abs(a - b)

\* a distance in km or float('inf')
Finite(km) == [inf |-> FALSE, km |-> km]

Infinity == [inf |-> TRUE, km |-> 0]

Less(a, b) == IF a.inf THEN FALSE ELSE IF b.inf THEN TRUE ELSE a.km < b.km

\* lines 138-152: the nearest planned waypoint, skipping the pairs whose distance fails
RECURSIVE MinDistance(_, _, _, _)
MinDistance(lat, planned, i, best) ==
    IF i > Len(planned) THEN best
    ELSE IF DistanceFails(lat, planned[i].latitude)
         THEN MinDistance(lat, planned, i + 1, best)
         ELSE LET distance == Finite(DistanceKm(lat, planned[i].latitude))
              IN  MinDistance(lat, planned, i + 1,
                              IF Less(distance, best) THEN distance ELSE best)

\* lines 136-158: worst.point is the index of max_deviation_point, 0 for None
RECURSIVE MaxDeviation(_, _, _, _)
MaxDeviation(actual, planned, i, worst) ==
    IF i > Len(actual) THEN worst
    ELSE LET min_distance == MinDistance(actual[i].latitude, planned, 1, Infinity)
         IN  MaxDeviation(actual, planned, i + 1,
                          IF Less(worst.km, min_distance)
                          THEN [km |-> min_distance, point |-> i]
                          ELSE worst)

\* lines 162-170: segments whose distance fails add nothing
RECURSIVE TotalPlannedDistance(_, _)
TotalPlannedDistance(planned, i) ==
    IF i >= Len(planned) THEN 0
    ELSE (IF DistanceFails(planned[i].latitude, planned[i + 1].latitude) THEN 0
          ELSE DistanceKm(planned[i].latitude, planned[i + 1].latitude))
         + TotalPlannedDistance(planned, i + 1)

\* the ratio only has to reach pct / 100
DeviationReaches(max_km, total, pct) ==
    /\ total > 0
    /\ \/ max_km.inf
       \/ 100 * max_km.km >= pct * total

\* deviation_percentage > pct / 100, lines 173-177
DeviationExceeds(max_km, total, pct) ==
    /\ total > 0
    /\ \/ max_km.inf
       \/ 100 * max_km.km > pct * total

DetectRouteDeviations(s, d, clock) ==
    LET planned == PlannedRoute(s)
        actual == ActualRoute(s)
    IN  IF planned = <<>> \/ actual = <<>> THEN Ret(<<>>)
        ELSE IF \/ \E i \in 1..Len(actual) : "latitude" \notin actual[i].keys
                \/ \E j \in 1..Len(planned) : "latitude" \notin planned[j].keys
        THEN Raise
        ELSE LET worst == MaxDeviation(actual, planned, 1, [km |-> Finite(0), point |-> 0])
                 total == TotalPlannedDistance(planned, 1)
                 stamp == IF worst.point = 0 THEN NullTs
                          ELSE Get(actual[worst.point], "timestamp",
                                   actual[worst.point].timestamp, NullTs)
             IN  IF DeviationExceeds(worst.km, total, d.route_deviation_threshold)
                 THEN Ret(<<Anomaly("route_deviation",
                                    IF DeviationExceeds(worst.km, total, 50)
                                    THEN "high" ELSE "medium",
                                    IF Truthy(stamp) THEN stamp ELSE NowIso(clock),
                                    Location(actual[worst.point]),
                                    FALSE,
                                    IF worst.km.inf THEN 0 - 1 ELSE worst.km.km,
                                    "route")>>)
                 ELSE Ret(<<>>)

----------------------------------------------------------------------------
(* Unusual-stop pass, _detect_unusual_stops *)

\* the first exception the sort key of line 210 raises over the route, if any
RECURSIVE SortKeyFailure(_, _)
SortKeyFailure(route, i) ==
    IF i > Len(route) THEN "none"
    ELSE IF "timestamp" \notin route[i].keys THEN "KeyError"
    ELSE IF ParseTs(route[i].timestamp).exc # "none" THEN ParseTs(route[i].timestamp).exc
    ELSE SortKeyFailure(route, i + 1)

\* sorted() has to order every pair of keys
KeysComparable(route) ==
    \A i, j \in 1..Len(route) :
        Comparable(ParseTs(route[i].timestamp), ParseTs(route[j].timestamp))

\* put p behind every element of the sorted sequence whose time is not later
RECURSIVE InsertByTime(_, _)
InsertByTime(p, sorted) ==
    IF sorted = <<>> THEN <<p>>
    ELSE LET last == sorted[Len(sorted)]
         IN  IF last.timestamp.t <= p.timestamp.t THEN Append(sorted, p)
             ELSE Append(InsertByTime(p, SubSeq(sorted, 1, Len(sorted) - 1)), last)

\* sorted(route, key=parsed timestamp): a new list, stable
RECURSIVE SortedByTime(_)
SortedByTime(route) ==
    IF route = <<>> THEN <<>>
    ELSE InsertByTime(route[Len(route)], SortedByTime(SubSeq(route, 1, Len(route) - 1)))

NoStop == [open |-> FALSE, start_time |-> ParseTs(Ts(0, "naive")),
           end_time |-> ParseTs(Ts(0, "naive")), location |-> NoLocation]

StopDuration(stop) == stop.end_time.t - stop.start_time.t

\* a stop has to last longer than the threshold to be kept
CloseStopStrict(st, threshold) ==
    IF st.current.open /\ StopDuration(st.current) > threshold
    THEN Append(st.stops, st.current)
    ELSE st.stops

\* lines 238-244 and 250-254: close the open stop, keeping it when long enough
CloseStop(st, threshold) ==
    IF st.current.open /\ StopDuration(st.current) >= threshold
    THEN Append(st.stops, st.current)
    ELSE st.stops

\* lines 219-247: one iteration of the walk over the sorted route
StopStep(st, point, threshold) ==
    LET speed == Get(point, "speed", point.speed, 0)
        timestamp == ParseTs(point.timestamp)
    IN  IF speed < 5
        THEN IF ~st.current.open
             THEN IF "latitude" \notin point.keys THEN st
                  ELSE [st EXCEPT !.current =
                            [open |-> TRUE, start_time |-> timestamp,
                             end_time |-> timestamp,
                             location |-> Location(point)]]
             ELSE [st EXCEPT !.current.end_time = timestamp]
        ELSE [current |-> NoStop, stops |-> CloseStop(st, threshold)]

RECURSIVE StopWalk(_, _, _, _)
StopWalk(sorted, i, st, threshold) ==
    IF i > Len(sorted) THEN CloseStop(st, threshold)
    ELSE StopWalk(sorted, i + 1, StopStep(st, sorted[i], threshold), threshold)

\* lines 257-266
StopAnomaly(stop) ==
    Anomaly("unusual_stop",
            IF StopDuration(stop) > 60 THEN "high" ELSE "medium",
            IsoFormat(stop.start_time), stop.location, FALSE,
            StopDuration(stop), "stops")

DetectUnusualStops(s, d) ==
    LET actual == ActualRoute(s)
    IN  IF Len(actual) < 2 THEN Ret(<<>>)
        ELSE IF SortKeyFailure(actual, 1) \in {"ValueError", "KeyError"} THEN Ret(<<>>)
        ELSE IF SortKeyFailure(actual, 1) # "none" THEN Raise
        ELSE IF ~KeysComparable(actual) THEN Raise
        ELSE LET stops == StopWalk(SortedByTime(actual), 1,
                                   [current |-> NoStop, stops |-> <<>>],
                                   d.unusual_stop_threshold_minutes)
             IN  Ret([k \in 1..Len(stops) |-> StopAnomaly(stops[k])])

----------------------------------------------------------------------------
(* Speed-violation pass, _detect_speed_violations *)

SpeedGroupMinutes == 5

\* lines 287-301: a point whose location lookup fails is skipped
RECURSIVE Violations(_, _, _, _)
Violations(route, i, threshold, clock) ==
    IF i > Len(route) THEN <<>>
    ELSE LET point == route[i]
             rest == Violations(route, i + 1, threshold, clock)
         IN  IF Get(point, "speed", point.speed, 0) > threshold
                /\ "latitude" \in point.keys
             THEN <<[speed |-> point.speed,
                     timestamp |-> Get(point, "timestamp", point.timestamp, NowIso(clock)),
                     location |-> Location(point)]>> \o rest
             ELSE rest

\* lines 310-312: the minutes from a to b, or a failure caught by the loop
TimeDiff(a, b) ==
    LET current_time == ParseTs(a)
        other_time == ParseTs(b)
    IN  IF current_time.exc # "none" \/ other_time.exc # "none"
           \/ ~Comparable(current_time, other_time)
        THEN [failed |-> TRUE, minutes |-> 0]
        ELSE [failed |-> FALSE, minutes |-> other_time.t - current_time.t]

\* a maximum of exactly 1.2 times the threshold graded high
SpeedAnomalyHighFrom144(current_violation, max_speed, threshold) ==
    Anomaly("speed_violation",
            IF 10 * max_speed >= 12 * threshold THEN "high" ELSE "medium",
            current_violation.timestamp, current_violation.location, FALSE,
            max_speed, "speed")

\* lines 319-327 and 338-346
SpeedAnomaly(current_violation, max_speed, threshold) ==
    Anomaly("speed_violation",
            IF 10 * max_speed > 12 * threshold THEN "high" ELSE "medium",
            current_violation.timestamp, current_violation.location, FALSE,
            max_speed, "speed")

\* lines 308-334: the loop over violations[1:]
RECURSIVE SpeedGroups(_, _, _, _, _, _)
SpeedGroups(violations, i, current_violation, max_speed, anoms, threshold) ==
    IF i > Len(violations)
    THEN Append(anoms, SpeedAnomaly(current_violation, max_speed, threshold))
    ELSE LET violation == violations[i]
             time_diff == TimeDiff(current_violation.timestamp, violation.timestamp)
         IN  IF time_diff.failed
             THEN SpeedGroups(violations, i + 1, current_violation, max_speed, anoms,
                              threshold)
             ELSE IF time_diff.minutes <= SpeedGroupMinutes
             THEN SpeedGroups(violations, i + 1, current_violation,
                              Max2(max_speed, violation.speed), anoms, threshold)
             ELSE SpeedGroups(violations, i + 1, violation, violation.speed,
                              Append(anoms, SpeedAnomaly(current_violation, max_speed,
                                                         threshold)),
                              threshold)

DetectSpeedViolations(s, d, clock) ==
    LET violations == Violations(ActualRoute(s), 1, d.speed_threshold, clock)
    IN  IF violations = <<>> THEN Ret(<<>>)
        ELSE Ret(SpeedGroups(violations, 2, violations[1], violations[1].speed, <<>>,
                             d.speed_threshold))

----------------------------------------------------------------------------
(* Temperature-breach pass, _detect_temperature_breaches *)

BreachGroupMinutes == 30

\* shipment.get('cargo', {}).get('temperature_controlled', False)
TemperatureControlled(s) ==
    /\ "cargo" \in s.keys
    /\ "temperature_controlled" \in s.cargo.keys
    /\ s.cargo.temperature_controlled

\* lines 532-534
HasTemperatureRange(s) ==
    /\ "cargo" \in s.keys
    /\ "temperature_range" \in s.cargo.keys
    /\ {"min", "max"} \subseteq s.cargo.temperature_range.keys

\* a reading at the limit of the range counted as a breach
IsBreachAtLimits(point, min_temp, max_temp) ==
    /\ "temperature" \in point.keys
    /\ \/ point.temperature <= min_temp
       \/ point.temperature >= max_temp

IsBreach(point, min_temp, max_temp) ==
    /\ "temperature" \in point.keys
    /\ \/ point.temperature < min_temp
       \/ point.temperature > max_temp

\* lines 543-555
RECURSIVE Breaches(_, _, _, _, _)
Breaches(route, i, min_temp, max_temp, clock) ==
    IF i > Len(route) THEN <<>>
    ELSE LET point == route[i]
             rest == Breaches(route, i + 1, min_temp, max_temp, clock)
         IN  IF IsBreach(point, min_temp, max_temp)
             THEN <<[temperature |-> point.temperature,
                     timestamp |-> Get(point, "timestamp", point.timestamp, NowIso(clock)),
                     location |-> Location(point),
                     breach_type |-> IF point.temperature < min_temp
                                     THEN "too_cold" ELSE "too_hot"]>> \o rest
             ELSE rest

\* lines 576-589 and 601-614
BreachAnomaly(current_breach, breach_type, min_recorded, max_recorded) ==
    Anomaly("temperature_breach", "high", current_breach.timestamp,
            current_breach.location, FALSE,
            IF breach_type = "too_cold" THEN min_recorded ELSE max_recorded,
            "temperature")

\* lines 563-597: the loop over breaches[1:]
RECURSIVE BreachGroups(_, _, _, _, _, _, _)
BreachGroups(breaches, i, current_breach, breach_type, min_recorded, max_recorded, anoms) ==
    IF i > Len(breaches)
    THEN Append(anoms, BreachAnomaly(current_breach, breach_type, min_recorded,
                                     max_recorded))
    ELSE LET breach == breaches[i]
             time_diff == TimeDiff(current_breach.timestamp, breach.timestamp)
         IN  IF time_diff.failed
             THEN BreachGroups(breaches, i + 1, current_breach, breach_type,
                               min_recorded, max_recorded, anoms)
             ELSE IF time_diff.minutes <= BreachGroupMinutes
                     /\ breach.breach_type = breach_type
             THEN IF breach_type = "too_cold"
                  THEN BreachGroups(breaches, i + 1, current_breach, breach_type,
                                    Min2(min_recorded, breach.temperature), max_recorded,
                                    anoms)
                  ELSE BreachGroups(breaches, i + 1, current_breach, breach_type,
                                    min_recorded, Max2(max_recorded, breach.temperature),
                                    anoms)
             ELSE BreachGroups(breaches, i + 1, breach, breach.breach_type,
                               breach.temperature, breach.temperature,
                               Append(anoms, BreachAnomaly(current_breach, breach_type,
                                                           min_recorded, max_recorded)))

DetectTemperatureBreaches(s, clock) ==
    IF ~TemperatureControlled(s) \/ ~HasTemperatureRange(s) THEN Ret(<<>>)
    ELSE LET min_temp == s.cargo.temperature_range.min
             max_temp == s.cargo.temperature_range.max
             actual == ActualRoute(s)
         IN  IF \E i \in 1..Len(actual) :
                    IsBreach(actual[i], min_temp, max_temp) /\ "latitude" \notin actual[i].keys
             THEN Raise
             ELSE LET breaches == Breaches(actual, 1, min_temp, max_temp, clock)
                  IN  IF breaches = <<>> THEN Ret(<<>>)
                      ELSE Ret(BreachGroups(breaches, 2, breaches[1],
                                            breaches[1].breach_type,
                                            breaches[1].temperature,
                                            breaches[1].temperature, <<>>))

----------------------------------------------------------------------------
(* Fraud pass, _detect_potential_fraud *)

\* shipment['origin']['city'], shipment['destination']['city'] or
\* shipment['cargo']['type'] raises KeyError, caught at line 388
SimilarLookupFails(s) ==
    \/ "origin" \notin s.keys \/ "city" \notin s.origin.keys
    \/ "destination" \notin s.keys \/ "city" \notin s.destination.keys
    \/ "type" \notin s.cargo.keys

\* lines 365-369: (same origin & same destination) | same cargo type
IsSimilar(row, s) ==
    \/ /\ row.origin_city = s.origin.city
       /\ row.destination_city = s.destination.city
    \/ row.cargo_type = s.cargo.type

RECURSIVE SimilarShipments(_, _, _)
SimilarShipments(rows, i, s) ==
    IF i > Len(rows) THEN <<>>
    ELSE (IF IsSimilar(rows[i], s) THEN <<rows[i]>> ELSE <<>>)
         \o SimilarShipments(rows, i + 1, s)

RECURSIVE SumValues(_, _)
SumValues(rows, i) ==
    IF i > Len(rows) THEN 0 ELSE rows[i].cargo_value + SumValues(rows, i + 1)

\* without historical data every cargo of positive value counts as deviating
ValueCheckWithoutBaseline(s, d, clock) ==
    IF "cargo" \in s.keys /\ "value" \in s.cargo.keys /\ s.cargo.value > 0
    THEN <<Anomaly("potential_fraud", "high", NowIso(clock), NoLocation, FALSE,
                   s.cargo.value, "fraud_value")>>
    ELSE <<>>

\* lines 371-387, with avg_value = total / count kept as a fraction
ValueDeviates(current_value, total, count, pct) ==
    /\ count > 0
    /\ current_value > 0
    /\ total > 0
    /\ 100 * Abs(current_value * count - total) > pct * total

ValueCheck(s, d, clock) ==
    IF /\ d.historical_data.loaded
       /\ "cargo" \in s.keys
       /\ "value" \in s.cargo.keys
       /\ ~SimilarLookupFails(s)
    THEN LET similar == SimilarShipments(d.historical_data.rows, 1, s)
         IN  IF ValueDeviates(s.cargo.value, SumValues(similar, 1), Len(similar),
                              d.value_deviation_threshold)
             THEN <<Anomaly("potential_fraud", "high", NowIso(clock), NoLocation, FALSE,
                            s.cargo.value, "fraud_value")>>
             ELSE <<>>
    ELSE <<>>

\* round(latitude, 3): a whole number of degrees is its own rounding
Round3(lat) == lat

\* round(longitude, 3) in thousandths of a degree, from ten-thousandths that
\* are not half way between two thousandths
RoundLongitude3(lon) == (lon + 5) \div 10

\* lines 397-415: the scan stops at the first revisit, and at the first point
\* whose coordinate lookup fails (caught at line 416)
RECURSIVE RevisitScan(_, _, _, _)
RevisitScan(route, i, visited_areas, clock) ==
    IF i > Len(route) THEN <<>>
    ELSE IF ~({"latitude", "longitude"} \subseteq route[i].keys) THEN <<>>
    ELSE LET area_key == <<Round3(route[i].latitude), RoundLongitude3(route[i].longitude)>>
         IN  IF area_key \in visited_areas
             THEN <<Anomaly("potential_fraud", "medium",
                            Get(route[i], "timestamp", route[i].timestamp, NowIso(clock)),
                            Location(route[i]), FALSE, 0, "fraud_revisit")>>
             ELSE RevisitScan(route, i + 1, visited_areas \cup {area_key}, clock)

\* the scan run on a route of two points as well
RevisitCheckFromTwoPoints(s, clock) ==
    IF Len(ActualRoute(s)) > 1 THEN RevisitScan(ActualRoute(s), 1, {}, clock) ELSE <<>>

\* lines 391-417
RevisitCheck(s, clock) ==
    IF Len(ActualRoute(s)) > 2 THEN RevisitScan(ActualRoute(s), 1, {}, clock) ELSE <<>>

DetectPotentialFraud(s, d, clock) == Ret(ValueCheck(s, d, clock) \o RevisitCheck(s, clock))

----------------------------------------------------------------------------
(* Delay pass, _detect_delays *)

\* 'high' if delay_hours > 24 else 'medium' if delay_hours > 8 else 'low'
DelaySeverity(minutes) ==
    IF minutes > 24 * 60 THEN "high" ELSE IF minutes > 8 * 60 THEN "medium" ELSE "low"

\* the delay of exactly two hours that line 445 does not report, reported
DeliveredDelayFromTwoHours(s, estimated_arrival) ==
    LET actual_arrival == ParseTs(s.actual_arrival_time)
        delay == actual_arrival.t - estimated_arrival.t
    IN  IF actual_arrival.exc # "none" \/ ~Comparable(actual_arrival, estimated_arrival)
        THEN <<>>
        ELSE IF delay >= 2 * 60
        THEN <<Anomaly("delay", DelaySeverity(delay), IsoFormat(actual_arrival),
                       NoLocation, TRUE, delay, "delay_delivered")>>
        ELSE <<>>

\* lines 441-453
DeliveredDelay(s, estimated_arrival) ==
    LET actual_arrival == ParseTs(s.actual_arrival_time)
        delay == actual_arrival.t - estimated_arrival.t
    IN  IF actual_arrival.exc # "none" \/ ~Comparable(actual_arrival, estimated_arrival)
        THEN <<>>
        ELSE IF delay > 2 * 60
        THEN <<Anomaly("delay", DelaySeverity(delay), IsoFormat(actual_arrival),
                       NoLocation, TRUE, delay, "delay_delivered")>>
        ELSE <<>>

\* the overdue anomaly marked resolved, as the delivered one is
OverdueDelayResolved(estimated_arrival, clock) ==
    <<Anomaly("delay", DelaySeverity(clock - estimated_arrival.t), NowIso(clock),
              NoLocation, TRUE, clock - estimated_arrival.t, "delay_overdue")>>

\* lines 459-467
OverdueDelay(estimated_arrival, clock) ==
    <<Anomaly("delay", DelaySeverity(clock - estimated_arrival.t), NowIso(clock),
              NoLocation, FALSE, clock - estimated_arrival.t, "delay_overdue")>>

RECURSIVE SpeedSum(_, _)
SpeedSum(route, i) ==
    IF i > Len(route) THEN 0
    ELSE (IF "speed" \in route[i].keys THEN route[i].speed ELSE 0) + SpeedSum(route, i + 1)

SpeedCount(route) == Cardinality({i \in 1..Len(route) : "speed" \in route[i].keys})

\* the projected delay graded high above 24 hours, as the other branches are
ProjectedDelayThreeBands(s, estimated_arrival, clock) ==
    LET actual == s.actual_route
    IN  IF \/ SortKeyFailure(actual, 1) # "none"
           \/ ~KeysComparable(actual)
        THEN <<>>
        ELSE LET latest_point == SortedByTime(actual)[Len(actual)]
                 latest_time == ParseTs(latest_point.timestamp)
             IN  IF \/ "latitude" \notin latest_point.keys
                    \/ "destination" \notin s.keys
                    \/ "coordinates" \notin s.destination.keys
                    \/ DistanceFails(latest_point.latitude, s.destination.latitude)
                 THEN <<>>
                 ELSE LET distance_to_dest ==
                              DistanceKm(latest_point.latitude, s.destination.latitude)
                          speed_count == IF SpeedCount(actual) > 0
                                         THEN SpeedCount(actual) ELSE 1
                          speed_total == IF SpeedCount(actual) > 0
                                         THEN SpeedSum(actual, 1) ELSE 60
                          late == (latest_time.t - estimated_arrival.t) * speed_total
                                  + 60 * distance_to_dest * speed_count
                      IN  IF /\ speed_total > 0
                             /\ Comparable(latest_time, estimated_arrival)
                             /\ late > 0
                             /\ late > 60 * speed_total
                          THEN <<Anomaly("delay",
                                         IF late > 24 * 60 * speed_total THEN "high"
                                         ELSE IF late > 8 * 60 * speed_total
                                         THEN "medium" ELSE "low",
                                         NowIso(clock), NoLocation, FALSE,
                                         late \div speed_total, "delay_projected")>>
                          ELSE <<>>

\* lines 472-510; avg_speed = speed_total / speed_count and the projected
\* delay in minutes = late / speed_total are kept as fractions
ProjectedDelay(s, estimated_arrival, clock) ==
    LET actual == s.actual_route
    IN  IF \/ SortKeyFailure(actual, 1) # "none"
           \/ ~KeysComparable(actual)
        THEN <<>>
        ELSE LET latest_point == SortedByTime(actual)[Len(actual)]
                 latest_time == ParseTs(latest_point.timestamp)
             IN  IF \/ "latitude" \notin latest_point.keys
                    \/ "destination" \notin s.keys
                    \/ "coordinates" \notin s.destination.keys
                    \/ DistanceFails(latest_point.latitude, s.destination.latitude)
                 THEN <<>>
                 ELSE LET distance_to_dest ==
                              DistanceKm(latest_point.latitude, s.destination.latitude)
                          speed_count == IF SpeedCount(actual) > 0
                                         THEN SpeedCount(actual) ELSE 1
                          speed_total == IF SpeedCount(actual) > 0
                                         THEN SpeedSum(actual, 1) ELSE 60
                          late == (latest_time.t - estimated_arrival.t) * speed_total
                                  + 60 * distance_to_dest * speed_count
                      IN  IF /\ speed_total > 0
                             /\ Comparable(latest_time, estimated_arrival)
                             /\ late > 0
                             /\ late > 60 * speed_total
                          THEN <<Anomaly("delay",
                                         IF late > 8 * 60 * speed_total
                                         THEN "medium" ELSE "low",
                                         NowIso(clock), NoLocation, FALSE,
                                         late \div speed_total, "delay_projected")>>
                          ELSE <<>>

\* the projection made for an overdue shipment as well
InTransitDelayBothBranches(s, estimated_arrival, clock) ==
    IF estimated_arrival.aware THEN <<>>
    ELSE (IF clock > estimated_arrival.t THEN OverdueDelay(estimated_arrival, clock)
          ELSE <<>>)
         \o (IF "actual_route" \in s.keys /\ s.actual_route # <<>>
             THEN ProjectedDelay(s, estimated_arrival, clock)
             ELSE <<>>)

\* lines 456-510; datetime.now() is naive, so ordering it against an aware
\* estimate is a TypeError caught at line 511
InTransitDelay(s, estimated_arrival, clock) ==
    IF estimated_arrival.aware THEN <<>>
    ELSE IF clock > estimated_arrival.t THEN OverdueDelay(estimated_arrival, clock)
    ELSE IF "actual_route" \in s.keys /\ s.actual_route # <<>>
    THEN ProjectedDelay(s, estimated_arrival, clock)
    ELSE <<>>

DetectDelays(s, clock) ==
    IF "estimated_arrival_time" \notin s.keys THEN Ret(<<>>)
    ELSE LET estimated_arrival == ParseTs(s.estimated_arrival_time)
         IN  IF estimated_arrival.exc # "none" THEN Ret(<<>>)
             ELSE IF Status(s) = "delivered" /\ "actual_arrival_time" \in s.keys
             THEN Ret(DeliveredDelay(s, estimated_arrival))
             ELSE IF Status(s) = "in_transit"
             THEN Ret(InTransitDelay(s, estimated_arrival, clock))
             ELSE Ret(<<>>)

----------------------------------------------------------------------------
(* detect_anomalies, lines 40-111 *)

\* the delay pass run ahead of the fraud pass
PassOrderDelayFirst == <<"demo", "route", "stops", "speed", "delay", "fraud", "temperature">>

PassOrder == <<"demo", "route", "stops", "speed", "fraud", "delay", "temperature">>

RunPass(name, s, d, clock) ==
    CASE name = "demo" -> DemoChecks(s)
      [] name = "route" -> DetectRouteDeviations(s, d, clock)
      [] name = "stops" -> DetectUnusualStops(s, d)
      [] name = "speed" -> DetectSpeedViolations(s, d, clock)
      [] name = "fraud" -> DetectPotentialFraud(s, d, clock)
      [] name = "delay" -> DetectDelays(s, clock)
      [] name = "temperature" ->
            IF TemperatureControlled(s) THEN DetectTemperatureBreaches(s, clock)
            ELSE Ret(<<>>)

\* anomalies.extend(...) pass after pass; an exception leaves through the caller
RECURSIVE RunPasses(_, _, _, _, _, _)
RunPasses(order, i, s, d, clock, anoms) ==
    IF i > Len(order) THEN Ret(anoms)
    ELSE LET out == RunPass(order[i], s, d, clock)
         IN  IF out.raised THEN Raise
             ELSE RunPasses(order, i + 1, s, d, clock, anoms \o out.anomalies)

DetectAnomalies(s, d, clock) == RunPasses(PassOrder, 1, s, d, clock, <<>>)

\* route.sort(): the caller's list is reordered in place
RouteSortedInPlace(route) ==
    IF SortKeyFailure(route, 1) = "none" /\ KeysComparable(route)
    THEN SortedByTime(route) ELSE route

\* sorted() at lines 210 and 473 builds a new list: the caller's route stays as it was
RouteAfterSorted(route) == route

\* the shipment mapping as detect_anomalies leaves it
ShipmentAfterDetect(s) == [s EXCEPT !.actual_route = RouteAfterSorted(@)]

----------------------------------------------------------------------------
(* The detector instance, __init__ lines 20-38 *)

NoHistoricalData == [loaded |-> FALSE, rows |-> <<>>]

HistoricalData(rows) == [loaded |-> TRUE, rows |-> rows]

\* historical_data_path: None, '', a path that does not exist, a file that
\* read_csv fails on, or a file holding rows
NoPath == [kind |-> "none", rows |-> <<>>]

PathTo(kind, rows) == [kind |-> kind, rows |-> rows]

\* lines 26-32: falsy and missing paths are not opened; a failed read is logged
LoadHistoricalData(path) ==
    IF path.kind \in {"none", "empty"} THEN NoHistoricalData
    ELSE IF path.kind = "missing" THEN NoHistoricalData
    ELSE IF path.kind = "unreadable" THEN NoHistoricalData
    ELSE HistoricalData(path.rows)

\* thresholds: the two ratios are held in percent; historical_data_path
\* records the argument the instance was built with
NewDetector(historical_data) ==
    [historical_data |-> historical_data,
     historical_data_path |-> IF historical_data.loaded
                              THEN PathTo("file", historical_data.rows) ELSE NoPath,
     route_deviation_threshold |-> 20,
     unusual_stop_threshold_minutes |-> 30,
     speed_threshold |-> 120,
     value_deviation_threshold |-> 30]

\* ShipmentAnomalyDetector(historical_data_path)
Construct(path) ==
    [NewDetector(LoadHistoricalData(path)) EXCEPT !.historical_data_path = path]

----------------------------------------------------------------------------
(* analyze_shipment, lines 619-649 *)

HasHighSeverity(anoms) == \E i \in 1..Len(anoms) : anoms[i].severity = "high"

\* the flag is raised by any anomaly that is not low
WithAnomaliesAnyNotLow(m, anoms) ==
    [m EXCEPT !.keys = @ \cup {"anomalies", "anomaly_count", "has_high_severity_anomalies"},
              !.anomalies = anoms,
              !.anomaly_count = Len(anoms),
              !.has_high_severity_anomalies =
                  \E i \in 1..Len(anoms) : anoms[i].severity # "low"]

\* lines 645-647 applied to the mapping m
WithAnomalies(m, anoms) ==
    [m EXCEPT !.keys = @ \cup {"anomalies", "anomaly_count", "has_high_severity_anomalies"},
              !.anomalies = anoms,
              !.anomaly_count = Len(anoms),
              !.has_high_severity_anomalies = HasHighSeverity(anoms)]

\* result = shipment_data: the three fields are written into the input
InputAliased(shipment_data, anoms) == WithAnomalies(shipment_data, anoms)

\* line 644: result = shipment_data.copy(), so the additions miss the input
InputAfterCopy(shipment_data, anoms) == shipment_data

\* what analyze_shipment may be handed: a mapping, a list, a number, or a
\* str ("text"); `decoded' is what json.loads makes of a text: "invalid" when
\* it raises JSONDecodeError, else the kind of the value it returns
Value(kind, m) == [kind |-> kind, shipment |-> m, decoded |-> "none"]

Text(decoded, m) == [kind |-> "text", shipment |-> m, decoded |-> decoded]

\* the result handed back and the input mapping as the call leaves it
AnalyzeShipment(shipment_data, historical_data, clock) ==
    LET out == DetectAnomalies(shipment_data, NewDetector(historical_data), clock)
    IN  IF out.raised
        THEN [kind |-> "raised", data |-> <<>>,
              input |-> ShipmentAfterDetect(shipment_data)]
        ELSE [kind |-> "ok",
              data |-> <<WithAnomalies(ShipmentAfterDetect(shipment_data), out.anomalies)>>,
              input |-> InputAfterCopy(ShipmentAfterDetect(shipment_data), out.anomalies)]

\* lines 629-649: a str is decoded first; whatever is then not a mapping has
\* no .get, and line 52 raises AttributeError
AnalyzeShipmentData(shipment_data, historical_data, clock) ==
    LET kind == IF shipment_data.kind = "text" THEN shipment_data.decoded
                ELSE shipment_data.kind
    IN  IF kind = "invalid"
        THEN [kind |-> "error", data |-> <<>>, input |-> shipment_data.shipment]
        ELSE IF kind = "mapping"
        THEN AnalyzeShipment(shipment_data.shipment, historical_data, clock)
        ELSE [kind |-> "raised", data |-> <<>>, input |-> shipment_data.shipment]

----------------------------------------------------------------------------
(* Inputs *)

Cargo(keys, type, value, controlled, range) ==
    [keys |-> keys, type |-> type, value |-> value,
     temperature_controlled |-> controlled, temperature_range |-> range]

TemperatureRange(keys, min, max) == [keys |-> keys, min |-> min, max |-> max]

NoRange == TemperatureRange({}, 0, 0)

Place(keys, city, lat) == [keys |-> keys, city |-> city, latitude |-> lat]

\* a mapping with no key at all; every field holds the value an absent key is given
EmptyMapping ==
    [keys |-> {}, id |-> <<>>, status |-> "", cargo |-> Cargo({}, "", 0, FALSE, NoRange),
     origin |-> Place({}, "", 0), destination |-> Place({}, "", 0),
     planned_route |-> <<>>, actual_route |-> <<>>,
     estimated_arrival_time |-> EmptyTs, actual_arrival_time |-> EmptyTs,
     updated_at |-> EmptyTs,
     route_points |-> <<>>, expected_delivery |-> EmptyTs, actual_delivery |-> EmptyTs,
     anomalies |-> <<>>, anomaly_count |-> 0, has_high_severity_anomalies |-> FALSE]

PointKeys == {"latitude", "longitude", "timestamp", "speed", "temperature"}

\* a well-formed telemetry point at latitude lat, minute t
Telemetry(lat, t, speed, temp) == Point(PointKeys, lat, Ts(t, "Z"), speed, temp)

Without(point, key) == [point EXCEPT !.keys = @ \ {key}]

\* an in-transit shipment S7 from A to B carrying the given routes
Carrying(planned, actual) ==
    [EmptyMapping EXCEPT
        !.keys = {"id", "status", "cargo", "origin", "destination",
                  "planned_route", "actual_route", "updated_at"},
        !.id = <<"S", "7">>,
        !.status = "in_transit",
        !.cargo = Cargo({"type", "value"}, "electronics", 100, FALSE, NoRange),
        !.origin = Place({"city", "coordinates"}, "A", 0),
        !.destination = Place({"city", "coordinates"}, "B", 20),
        !.planned_route = planned,
        !.actual_route = actual,
        !.updated_at = Ts(5, "Z")]

ColdChain == Cargo({"type", "value", "temperature_controlled", "temperature_range"},
                   "vaccines", 1000, TRUE, TemperatureRange({"min", "max"}, 2, 8))

TwoWaypoints == <<Waypoint({"latitude", "longitude"}, 0), Waypoint({"latitude", "longitude"}, 10)>>

\* off the planned route, stopped for 40 minutes, then speeding back: every
\* telemetry pass has something to report
EventfulRoute ==
    <<Telemetry(13, 0, 0, 10), Telemetry(13, 40, 0, 5), Telemetry(1, 50, 130, 5)>>

----------------------------------------------------------------------------
(* Operations *)

Callers == {1, 2}

ClockReadings == {0, 100, 600}

\* a call: its place in PassOrder, its shipment argument and its local list;
\* `alone' is the list the same passes give on a detector no other call uses,
\* `overlapped' whether another call was running during one of its passes
Idle == [pc |-> "idle", next |-> 1, shipment |-> <<>>, anomalies |-> <<>>,
         alone |-> <<>>, overlapped |-> FALSE]

NoResult == [kind |-> "none", data |-> <<>>, argument |-> <<>>]

\* an input directory that does not exist
NoDirectory == [exists |-> FALSE, files |-> <<>>]

Entry(call, clock, out) ==
    [call |-> call, at |-> clock, raised |-> out.raised, anomalies |-> out.anomalies]

InitWith(shipments, historical) ==
    /\ shipment \in shipments
    /\ detector \in {NewDetector(h) : h \in historical}
    /\ now = 0
    /\ runs = <<>>
    /\ result = NoResult
    /\ calls = [c \in Callers |-> Idle]
    /\ input_dir = NoDirectory
    /\ output_dir = <<>>
    /\ incidents = <<>>
    /\ alerts = <<>>

\* time passes
Tick ==
    /\ \E t \in ClockReadings : t > now /\ now' = t
    /\ UNCHANGED <<shipment, detector, runs, result, calls, input_dir, output_dir,
                 incidents, alerts>>

\* detector.detect_anomalies(shipment)
CallDetectAnomalies ==
    /\ Len(runs) < MaxRuns
    /\ runs' = Append(runs, Entry("detect_anomalies", now,
                                  DetectAnomalies(shipment, detector, now)))
    /\ shipment' = ShipmentAfterDetect(shipment)
    /\ UNCHANGED <<detector, now, result, calls, input_dir, output_dir,
                 incidents, alerts>>

\* one pass called on its own
CallPass(name) ==
    /\ Len(runs) < MaxRuns
    /\ runs' = Append(runs, Entry(name, now, RunPass(name, shipment, detector, now)))
    /\ shipment' = ShipmentAfterDetect(shipment)
    /\ UNCHANGED <<detector, now, result, calls, input_dir, output_dir,
                 incidents, alerts>>

CallDetectRouteDeviations == CallPass("route")

CallDetectUnusualStops == CallPass("stops")

CallDetectSpeedViolations == CallPass("speed")

CallDetectTemperatureBreaches == CallPass("temperature")

CallDetectDelays == CallPass("delay")

CallDetectPotentialFraud == CallPass("fraud")

\* one list shared by the calls that are running
ExtendSharedList(cs, c, anoms) ==
    [k \in DOMAIN cs |->
        IF cs[k].pc = "running" THEN [cs[k] EXCEPT !.anomalies = @ \o anoms] ELSE cs[k]]

\* lines 49 and 83-109: the list a call extends is its own local
ExtendAnomalies(cs, c, anoms) == [cs EXCEPT ![c].anomalies = @ \o anoms]

\* a shipment other than the caller's, for the second of two overlapping calls
OtherShipment == [Carrying(TwoWaypoints, EventfulRoute) EXCEPT !.id = <<"S", "2">>]

\* a thread enters detect_anomalies on the shared detector
Begin(c) ==
    /\ calls[c].pc = "idle"
    /\ \E s \in {shipment, OtherShipment} :
          calls' = [calls EXCEPT ![c] = [Idle EXCEPT !.pc = "running", !.shipment = <<s>>]]
    /\ UNCHANGED <<shipment, detector, now, runs, result, input_dir, output_dir,
                 incidents, alerts>>

\* the thread runs its next pass; after the last one it returns its list
Step(c) ==
    /\ calls[c].pc = "running"
    /\ LET call == calls[c]
           s == call.shipment[1]
           name == PassOrder[call.next]
           out == RunPass(name, s, detector, now)
       IN  IF out.raised
           THEN calls' = [calls EXCEPT ![c].pc = "raised"]
           ELSE calls' =
                   [ExtendAnomalies(calls, c, out.anomalies) EXCEPT
                       ![c].pc = IF call.next = Len(PassOrder) THEN "returned" ELSE "running",
                       ![c].next = @ + 1,
                       ![c].shipment = <<ShipmentAfterDetect(s)>>,
                       ![c].alone =
                           @ \o RunPass(name, s, NewDetector(detector.historical_data),
                                        now).anomalies,
                       ![c].overlapped =
                           @ \/ \E o \in Callers \ {c} : calls[o].pc = "running"]
    /\ UNCHANGED <<shipment, detector, now, runs, result, input_dir, output_dir,
                 incidents, alerts>>

\* analyze_shipment(shipment, historical_data_path)
CallAnalyzeShipment ==
    /\ result.kind = "none"
    /\ LET out == AnalyzeShipment(shipment, detector.historical_data, now)
       IN  /\ result' = [kind |-> out.kind, data |-> out.data,
                          argument |-> <<Value("mapping", shipment)>>]
           /\ shipment' = out.input
    /\ UNCHANGED <<detector, now, runs, calls, input_dir, output_dir,
                 incidents, alerts>>

\* what a caller may pass in place of the mapping: the mapping as JSON text,
\* text that is no JSON, text of a JSON list, number or string, a list, a number
Arguments(m) ==
    {Text("mapping", m)}
    \cup {Text(decoded, EmptyMapping) : decoded \in {"invalid", "list", "number", "string"}}
    \cup {Value(kind, EmptyMapping) : kind \in {"list", "number"}}

\* analyze_shipment(shipment_data, historical_data_path) on such an argument
CallAnalyzeShipmentData ==
    /\ result.kind = "none"
    /\ \E shipment_data \in Arguments(shipment) :
          LET out == AnalyzeShipmentData(shipment_data, detector.historical_data, now)
          IN  result' = [kind |-> out.kind, data |-> out.data,
                         argument |-> <<shipment_data>>]
    /\ UNCHANGED <<shipment, detector, now, runs, calls, input_dir, output_dir,
                 incidents, alerts>>

----------------------------------------------------------------------------
(* process_shipments_directory, lines 652-771 *)

\* a .json file: json.load raises on it, or gives the value
JsonFile(parses, value) == [ext |-> "json", parses |-> parses, value |-> <<value>>, rows |-> <<>>]

\* a .csv file: read_csv raises on it, or gives the rows
CsvFile(readable, rows) == [ext |-> "csv", parses |-> readable, value |-> <<>>, rows |-> rows]

\* a file of another kind, which neither loop opens
OtherFile == [ext |-> "txt", parses |-> FALSE, value |-> <<>>, rows |-> <<>>]

\* a row of a .csv file: the cells id and status, the cell cargo decoded, no
\* telemetry and no delivery times
Row(id, status, cargo) ==
    [id |-> id, status |-> status, cargo |-> cargo, route_points |-> <<>>,
     expected_delivery |-> EmptyTs, actual_delivery |-> EmptyTs]

\* the row with the cells route_points (decoded), expected_delivery and
\* actual_delivery filled in
Telemetered(row, route_points, expected_delivery, actual_delivery) ==
    [row EXCEPT !.route_points = route_points,
                !.expected_delivery = expected_delivery,
                !.actual_delivery = actual_delivery]

PreparedKeys ==
    {"id", "status", "origin", "destination", "cargo", "driver_id", "vehicle_id",
     "route_points", "expected_delivery", "actual_delivery", "anomalies",
     "created_at", "updated_at"}

\* the row's telemetry and times filed under the keys the detector reads
PreparedShipmentAsTelemetry(row) ==
    [EmptyMapping EXCEPT
        !.keys = (PreparedKeys \ {"route_points", "expected_delivery", "actual_delivery"})
                 \cup {"actual_route", "estimated_arrival_time", "actual_arrival_time"},
        !.id = row.id,
        !.status = row.status,
        !.cargo = row.cargo,
        !.actual_route = row.route_points,
        !.estimated_arrival_time = row.expected_delivery,
        !.actual_arrival_time = row.actual_delivery]

\* lines 742-756: the record built from a row; origin and destination are the
\* cells' text, not mappings
PreparedShipment(row) ==
    [EmptyMapping EXCEPT
        !.keys = PreparedKeys,
        !.id = row.id,
        !.status = row.status,
        !.cargo = row.cargo,
        !.route_points = row.route_points,
        !.expected_delivery = row.expected_delivery,
        !.actual_delivery = row.actual_delivery]

\* what was written for one input file: the records of the output file
Written(index, records) == [from |-> index, records |-> records]

\* nothing counted and nothing written
Skipped == [count |-> 0, written |-> <<>>]

\* lines 682-686: the result of analyze_shipment is written and counted
JsonWritten(out, index) ==
    IF out.kind = "raised" THEN Skipped
    ELSE [count |-> 1,
          written |-> <<Written(index, <<[kind |-> out.kind, data |-> out.data]>>)>>]

\* lines 673-689: one .json file; an exception anywhere skips the file
ProcessJsonFile(file, index, historical_data, clock) ==
    IF ~file.parses THEN Skipped
    ELSE JsonWritten(AnalyzeShipmentData(file.value[1], historical_data, clock), index)

\* lines 757-760: the results list of a file, lost when a row raises
RowResults(out) ==
    IF \E i \in 1..Len(out) : out[i].kind = "raised"
    THEN [raised |-> TRUE, results |-> <<>>]
    ELSE [raised |-> FALSE,
          results |-> [i \in 1..Len(out) |-> [kind |-> out[i].kind, data |-> out[i].data]]]

\* lines 710-760: the results of the rows, or a failure when one of them raises
AnalyzeRows(rows, historical_data, clock) ==
    RowResults([i \in 1..Len(rows) |->
                   AnalyzeShipmentData(Value("mapping", PreparedShipment(rows[i])),
                                       historical_data, clock)])

\* lines 762-766: the results of a file are written and counted
CsvWritten(out, index) ==
    IF out.raised THEN Skipped
    ELSE [count |-> Len(out.results), written |-> <<Written(index, out.results)>>]

\* lines 693-769: one .csv file; an exception anywhere skips the whole file
ProcessCsvFile(file, index, historical_data, clock) ==
    IF ~file.parses THEN Skipped
    ELSE CsvWritten(AnalyzeRows(file.rows, historical_data, clock), index)

\* processed_count and the files written, summed over the files from i on
RECURSIVE Gather(_, _)
Gather(outs, i) ==
    IF i > Len(outs) THEN Skipped
    ELSE [count |-> outs[i].count + Gather(outs, i + 1).count,
          written |-> outs[i].written \o Gather(outs, i + 1).written]

\* one file of the directory, by its extension
ProcessFile(file, index, historical_data, clock) ==
    IF file.ext = "json" THEN ProcessJsonFile(file, index, historical_data, clock)
    ELSE IF file.ext = "csv" THEN ProcessCsvFile(file, index, historical_data, clock)
    ELSE Skipped

\* one loop over os.listdir(input_dir) for the files of one extension
ProcessFiles(files, ext, outs) ==
    Gather([i \in 1..Len(files) |-> IF files[i].ext = ext THEN outs[i] ELSE Skipped], 1)

\* lines 672-769: the .json files first, then the .csv files
JsonThenCsv(files, outs) ==
    [count |-> ProcessFiles(files, "json", outs).count
               + ProcessFiles(files, "csv", outs).count,
     written |-> ProcessFiles(files, "json", outs).written
                 \o ProcessFiles(files, "csv", outs).written]

\* a missing directory gives 0
ProcessShipmentsDirectory(dir, historical_data, clock) ==
    IF ~dir.exists THEN Skipped
    ELSE JsonThenCsv(dir.files,
                     [i \in 1..Len(dir.files) |->
                         ProcessFile(dir.files[i], i, historical_data, clock)])

\* process_shipments_directory(input_dir, output_dir, historical_data_path)
CallProcessShipmentsDirectory ==
    /\ result.kind = "none"
    /\ LET out == ProcessShipmentsDirectory(input_dir, detector.historical_data, now)
       IN  /\ result' = [kind |-> "count", data |-> <<out.count>>, argument |-> <<>>]
           /\ output_dir' = output_dir \o out.written
    /\ UNCHANGED <<shipment, detector, now, runs, calls, input_dir, incidents, alerts>>

----------------------------------------------------------------------------
(* generate_high_risk_alerts, pathway/processors/alert_generator.py *)

\* str.lower() on the letters the severities are written in
LowerCase ==
    [c \in {"H", "I", "G", "L", "O", "W", "M", "E", "D", "U"} |->
        CASE c = "H" -> "h" [] c = "I" -> "i" [] c = "G" -> "g" [] c = "L" -> "l"
          [] c = "O" -> "o" [] c = "W" -> "w" [] c = "M" -> "m" [] c = "E" -> "e"
          [] c = "D" -> "d" [] c = "U" -> "u"]

\* a text is the sequence of its characters
Lower(text) ==
    [i \in 1..Len(text) |-> IF text[i] \in DOMAIN LowerCase THEN LowerCase[text[i]] ELSE text[i]]

\* line 7, in tenths: {"low": 0.1, "medium": 0.5, "high": 0.9}.get(str(sev).lower(), 0.3)
SevToScore(sev) ==
    LET key == Lower(sev)
    IN  IF key = <<"l", "o", "w">> THEN 1
        ELSE IF key = <<"m", "e", "d", "i", "u", "m">> THEN 5
        ELSE IF key = <<"h", "i", "g", "h">> THEN 9
        ELSE 3

Incident(id, severity, description) ==
    [id |-> id, severity |-> severity, description |-> description]

\* line 9: the incidents with their risk_score column
Scored(rows) == [i \in 1..Len(rows) |-> [incident |-> rows[i], risk_score |-> SevToScore(rows[i].severity)]]

\* an alert for every incident that is not low
HighRiskFromMedium(rows) ==
    LET kept == SelectSeq(Scored(rows), LAMBDA r : r.risk_score >= 5)
    IN  [i \in 1..Len(kept) |->
            [id |-> kept[i].incident.id, type |-> "safety",
             message |-> kept[i].incident.description, priority |-> "high"]]

\* lines 10-15: filter(risk_score >= 0.8), then the four columns of the alert
GenerateHighRiskAlerts(rows) ==
    LET kept == SelectSeq(Scored(rows), LAMBDA r : r.risk_score >= 8)
    IN  [i \in 1..Len(kept) |->
            [id |-> kept[i].incident.id, type |-> "safety",
             message |-> kept[i].incident.description, priority |-> "high"]]

MaxIncidents == 2   \* rows of the incidents table

SeverityTexts ==
    {<<"l", "o", "w">>, <<"L", "o", "w">>, <<"m", "e", "d", "i", "u", "m">>,
     <<"M", "E", "D", "I", "U", "M">>, <<"h", "i", "g", "h">>, <<"H", "i", "g", "h">>,
     <<"H", "I", "G", "H">>, <<"h", "i", "g", "h", " ">>, <<"c", "r", "i", "t", "i", "c", "a", "l">>,
     <<>>}

IncidentRows ==
    {Incident(id, severity, description) :
        id \in {"INC1", "INC2"}, severity \in SeverityTexts,
        description \in {"harsh braking", "speeding"}}

\* a row arrives in the incidents table; the table derived from it follows
AddIncident ==
    /\ Len(incidents) < MaxIncidents
    /\ \E row \in IncidentRows :
          /\ incidents' = Append(incidents, row)
          /\ alerts' = GenerateHighRiskAlerts(incidents')
    /\ UNCHANGED <<shipment, detector, now, runs, result, calls, input_dir, output_dir>>

----------------------------------------------------------------------------
(* Specifications.  Each draws the shipment from the inputs of one pass.   *)

\* gaps of 1, 29, 30, 31, 60 and 61 minutes: both sides of the 30 and 60 minute marks
StopTimes == {0, 1, 30, 61}

\* points at minute t (and latitude t) that report speed 4, speed 5 or no speed
StopPoints ==
    {Telemetry(t, t, speed, 5) : t \in StopTimes, speed \in {4, 5}}
    \cup {Without(Telemetry(t, t, 0, 5), "speed") : t \in StopTimes}
    \cup {[Telemetry(1, 0, 4, 5) EXCEPT !.timestamp = BadTs],
          Without(Telemetry(1, 0, 4, 5), "latitude")}

StopShipments(longest) == {Carrying(<<>>, actual) : actual \in SeqsUpTo(StopPoints, longest)}

InitStops == InitWith(StopShipments(MaxRoute), {NoHistoricalData})

NextStops == CallDetectUnusualStops

SpecStops == InitStops /\ [][NextStops]_vars

SpeedTimes == {0, 4, 8, 9, 14}

SpeedPoints == {Telemetry(t, t, speed, 5) : t \in SpeedTimes, speed \in {100, 121, 125, 150}}

SpeedShipments(longest) == {Carrying(<<>>, actual) : actual \in SeqsUpTo(SpeedPoints, longest)}

InitSpeed == InitWith(SpeedShipments(MaxRoute), {NoHistoricalData})

NextSpeed == CallDetectSpeedViolations

SpecSpeed == InitSpeed /\ [][NextSpeed]_vars

BreachTimes == {0, 10, 40, 71}

\* readings against the range 2..8 of ColdChain
BreachPoints == {Telemetry(t, t, 60, temp) : t \in BreachTimes, temp \in {0, 1, 8, 10, 11}}

BreachShipments(longest) ==
    {[Carrying(<<>>, actual) EXCEPT !.cargo = ColdChain] :
        actual \in SeqsUpTo(BreachPoints, longest)}

InitBreach == InitWith(BreachShipments(MaxRoute), {NoHistoricalData})

NextBreach == CallDetectTemperatureBreaches

SpecBreach == InitBreach /\ [][NextBreach]_vars

MaxPlanned == 2     \* longest planned_route

\* 95 is no latitude: every distance to it fails
Waypoints == {Waypoint({"latitude", "longitude"}, lat) : lat \in {0, 10, 95}}

DeviationPoints == {Telemetry(lat, lat, 60, 5) : lat \in {0, 12, 13, 15, 16, 95}}

DeviationShipments(waypoints, points) ==
    {Carrying(planned, actual) : planned \in SeqsUpTo(Waypoints, waypoints),
                                 actual \in SeqsUpTo(DeviationPoints, points)}

InitRoute == InitWith(DeviationShipments(MaxPlanned, MaxRoute), {NoHistoricalData})

NextRoute == CallDetectRouteDeviations

SpecRoute == InitRoute /\ [][NextRoute]_vars

\* points with naive timestamps, as the clock's, for the passes that need chronology
OrderPoints ==
    {Point(PointKeys, t, Ts(t, "naive"), speed, temp) :
        t \in {10, 14, 45, 50}, speed \in {0, 130}, temp \in {5, 10}}

OrderShipments(longest) ==
    {[Carrying(<<>>, actual) EXCEPT
        !.cargo = ColdChain,
        !.keys = @ \cup {"estimated_arrival_time"},
        !.estimated_arrival_time = Ts(700, "naive")] :
        actual \in SeqsUpTo(OrderPoints, longest)}

InitOrder == InitWith(OrderShipments(MaxRoute), {NoHistoricalData})

NextOrder ==
    \/ CallDetectUnusualStops
    \/ CallDetectSpeedViolations
    \/ CallDetectTemperatureBreaches
    \/ CallDetectDelays

SpecOrder == InitOrder /\ [][NextOrder]_vars

\* whole shipments: every combination of the ids, statuses, cargos, arrival
\* times and routes below
Ids == {<<>>, <<"S", "1">>, <<"S", "7">>}

Statuses == {"delayed", "in_transit", "delivered", "pending"}

Cargos ==
    {Cargo({"type", "value"}, "electronics", 100, FALSE, NoRange),
     Cargo({"type", "value"}, "Hazardous Chemicals", 1000, FALSE, NoRange),
     ColdChain}

\* estimated and actual arrival: none; an estimate alone; two hours and a
\* minute late; exactly two hours late; an estimate that does not parse
Arrivals ==
    {[keys |-> {}, estimated |-> EmptyTs, actual |-> EmptyTs],
     [keys |-> {"estimated_arrival_time"}, estimated |-> Ts(50, "naive"), actual |-> EmptyTs],
     [keys |-> {"estimated_arrival_time", "actual_arrival_time"},
      estimated |-> Ts(50, "Z"), actual |-> Ts(171, "Z")],
     [keys |-> {"estimated_arrival_time", "actual_arrival_time"},
      estimated |-> Ts(50, "naive"), actual |-> Ts(170, "naive")],
     [keys |-> {"estimated_arrival_time"}, estimated |-> BadTs, actual |-> EmptyTs]}

Routes ==
    {[planned |-> <<>>, actual |-> <<>>],
     [planned |-> TwoWaypoints, actual |-> EventfulRoute],
     \* a timestamp that does not parse
     [planned |-> TwoWaypoints,
      actual |-> <<Telemetry(13, 0, 130, 5),
                   [Telemetry(13, 9, 130, 5) EXCEPT !.timestamp = BadTs]>>],
     \* a timestamp that is not a string
     [planned |-> <<>>,
      actual |-> <<Telemetry(1, 0, 60, 5),
                   [Telemetry(1, 9, 60, 5) EXCEPT !.timestamp = NullTs]>>],
     \* a timestamp without offset among timestamps with one
     [planned |-> <<>>,
      actual |-> <<Telemetry(1, 0, 60, 5),
                   [Telemetry(1, 9, 60, 5) EXCEPT !.timestamp = Ts(9, "naive")]>>],
     \* a point without coordinates
     [planned |-> TwoWaypoints,
      actual |-> <<Without(Telemetry(1, 0, 60, 5), "latitude")>>],
     \* timestamps without offset; out and back, ending 19 degrees from the
     \* destination, too warm for ColdChain
     [planned |-> <<>>,
      actual |-> <<Point(PointKeys, 1, Ts(10, "naive"), 60, 10),
                   Point(PointKeys, 2, Ts(20, "naive"), 60, 10),
                   Point(PointKeys, 1, Ts(30, "naive"), 60, 10)>>],
     \* a stop of 40 minutes, then a speeding point without a timestamp
     [planned |-> TwoWaypoints,
      actual |-> <<Telemetry(13, 0, 0, 10), Telemetry(13, 40, 0, 5),
                   Without(Telemetry(1, 50, 130, 5), "timestamp")>>]}

WholeShipments ==
    {[Carrying(route.planned, route.actual) EXCEPT
        !.id = id,
        !.status = status,
        !.cargo = cargo,
        !.keys = @ \cup arrival.keys,
        !.estimated_arrival_time = arrival.estimated,
        !.actual_arrival_time = arrival.actual] :
        id \in Ids, status \in Statuses, cargo \in Cargos, arrival \in Arrivals,
        route \in Routes}

\* mappings that lack the optional keys
SparseShipments ==
    {[Carrying(<<>>, <<>>) EXCEPT !.keys = keys] :
        keys \in {{}, {"id"}, {"id", "status"}, {"status", "cargo"},
                  {"id", "status", "cargo", "updated_at"}}}

\* historical rows: shipments from A to B were worth 100
PastShipments ==
    HistoricalData(<<[origin_city |-> "A", destination_city |-> "B",
                      cargo_type |-> "textiles", cargo_value |-> 90],
                     [origin_city |-> "A", destination_city |-> "B",
                      cargo_type |-> "electronics", cargo_value |-> 110],
                     [origin_city |-> "C", destination_city |-> "B",
                      cargo_type |-> "textiles", cargo_value |-> 5000]>>)

Init == InitWith(WholeShipments \cup SparseShipments, {NoHistoricalData, PastShipments})

Next ==
    \/ Tick
    \/ CallDetectAnomalies
    \/ CallAnalyzeShipment

Spec == Init /\ [][Next]_vars

\* a few whole shipments, for calls that overlap
FrameShipments ==
    {s \in WholeShipments :
        /\ s.cargo = ColdChain
        /\ s.id = <<"S", "1">>
        /\ s.status = "in_transit"
        /\ s.estimated_arrival_time = Ts(50, "naive")
        /\ "actual_arrival_time" \notin s.keys
        /\ \/ s.actual_route = <<>>
           \/ s.actual_route = EventfulRoute
           \/ /\ Len(s.actual_route) = 2
              /\ s.actual_route[2].timestamp.tz = "naive"}

InitFrame == InitWith(FrameShipments, {NoHistoricalData, PastShipments})

NextFrame ==
    \/ CallDetectAnomalies
    \/ CallAnalyzeShipment
    \/ \E c \in Callers : Begin(c)
    \/ \E c \in Callers : Step(c)

SpecFrame == InitFrame /\ [][NextFrame]_vars

----------------------------------------------------------------------------
(* What the claims speak of *)

WellFormed(point) ==
    /\ {"latitude", "timestamp"} \subseteq point.keys
    /\ point.timestamp.kind = "iso"
    /\ point.timestamp.tz = "Z"

AllWellFormed(route) == \A i \in 1..Len(route) : WellFormed(route[i])

\* the place of point i in chronological order, equal times in the given order
Rank(route, i) ==
    1 + Cardinality({j \in 1..Len(route) :
                        \/ route[j].timestamp.t < route[i].timestamp.t
                        \/ route[j].timestamp.t = route[i].timestamp.t /\ j < i})

Chronological(route) ==
    [k \in 1..Len(route) |-> route[CHOOSE i \in 1..Len(route) : Rank(route, i) = k]]

\* the k-th smallest member of a set of numbers
Kth(S, k) == CHOOSE x \in S : Cardinality({y \in S : y < x}) = k - 1

Entries(call) == {i \in 1..Len(runs) : runs[i].call = call}

Stationary(point) == (IF "speed" \in point.keys THEN point.speed ELSE 0) < 5

\* i..j is a maximal run of stationary points of the route
IsStopRun(route, i, j) ==
    /\ i <= j
    /\ \A k \in i..j : Stationary(route[k])
    /\ i = 1 \/ ~Stationary(route[i - 1])
    /\ j = Len(route) \/ ~Stationary(route[j + 1])

RunLength(route, i, j) == route[j].timestamp.t - route[i].timestamp.t

\* the first points of the runs that last at least 30 minutes
LongStops(route) ==
    {i \in 1..Len(route) :
        \E j \in i..Len(route) : IsStopRun(route, i, j) /\ RunLength(route, i, j) >= 30}

LongStopEnd(route, i) == CHOOSE j \in i..Len(route) : IsStopRun(route, i, j)

\* C8: over the chronologically ordered route the unusual-stop pass returns one
\* unusual_stop anomaly for each maximal run of stationary points lasting at
\* least 30 minutes (a run still open at the end included) and nothing else;
\* the anomaly is high exactly when the run lasts more than 60 minutes and
\* carries the time and the location of the run's first point.
C8_OneAnomalyPerLongStop ==
    \A e \in Entries("stops") :
        AllWellFormed(ActualRoute(shipment)) =>
            LET route == Chronological(ActualRoute(shipment))
                out == runs[e].anomalies
                starts == LongStops(route)
            IN  /\ ~runs[e].raised
                /\ Len(out) = Cardinality(starts)
                /\ \A k \in 1..Len(out) :
                      LET i == Kth(starts, k)
                          minutes == RunLength(route, i, LongStopEnd(route, i))
                      IN  /\ out[k].type = "unusual_stop"
                          /\ out[k].severity = (IF minutes > 60 THEN "high" ELSE "medium")
                          /\ out[k].timestamp = Ts(route[i].timestamp.t, "offset")
                          /\ out[k].location = Location(route[i])
                          /\ ~out[k].resolved

\* a stop of exactly 30 minutes that is still open at the end of the route
C8_Witness ==
    \E e \in Entries("stops") :
        /\ AllWellFormed(ActualRoute(shipment))
        /\ Len(runs[e].anomalies) = 1
        /\ runs[e].anomalies[1].evidence = 30
        /\ Stationary(Chronological(ActualRoute(shipment))[Len(ActualRoute(shipment))])

NonDecreasing(route) ==
    \A i, j \in 1..Len(route) : i < j => route[i].timestamp.t <= route[j].timestamp.t

DistinctTimes(route) ==
    \A i, j \in 1..Len(route) : i # j => route[i].timestamp.t # route[j].timestamp.t

\* the members of the index set I, in route order
Picked(route, I) == [k \in 1..Cardinality(I) |-> route[Kth(I, k)]]

Speeding(route) == {i \in 1..Len(route) : route[i].speed > 120}

\* the claimed groups of a sequence of events: a new group starts at the first
\* event and wherever StartsGroup(previous, event) holds
GroupStarts(events, StartsGroup(_, _)) ==
    {k \in 1..Len(events) : k = 1 \/ StartsGroup(events[k - 1], events[k])}

GroupEnd(starts, g, n) == IF g = Cardinality(starts) THEN n ELSE Kth(starts, g + 1) - 1

SpeedGap(previous, violation) == violation.timestamp.t - previous.timestamp.t > 5

\* C9: the speed pass splits the violating points (speed > 120) of a route in
\* chronological order into groups by the gap to the violation immediately
\* before: at most 5 minutes joins the group, more starts a new one, so a chain
\* of violations each within 5 minutes of its predecessor is one group.  Each
\* group gives one anomaly, anchored at the group's first violation.
C9_GapToPreviousViolation ==
    \A e \in Entries("speed") :
        LET route == ActualRoute(shipment)
            violations == Picked(route, Speeding(route))
            starts == GroupStarts(violations, SpeedGap)
            out == runs[e].anomalies
        IN  (AllWellFormed(route) /\ NonDecreasing(route)) =>
                /\ Len(out) = Cardinality(starts)
                /\ \A g \in 1..Len(out) :
                      out[g].timestamp = violations[Kth(starts, g)].timestamp

BreachType(point) ==
    IF point.temperature < shipment.cargo.temperature_range.min THEN "too_cold"
    ELSE "too_hot"

Breaching(route) ==
    {i \in 1..Len(route) :
        \/ route[i].temperature < shipment.cargo.temperature_range.min
        \/ route[i].temperature > shipment.cargo.temperature_range.max}

BreachGap(previous, breach) ==
    \/ BreachType(previous) # BreachType(breach)
    \/ breach.timestamp.t - previous.timestamp.t > 30

\* the lowest / highest reading among events i..j
Extreme(events, i, j, type) ==
    CHOOSE x \in {events[k].temperature : k \in i..j} :
        \A k \in i..j : IF type = "too_cold" THEN x <= events[k].temperature
                        ELSE x >= events[k].temperature

\* C10: the temperature pass groups the breaches of a route in chronological
\* order so that a breach joins the group exactly when it has the group's
\* breach type and comes at most 30 minutes after the breach immediately
\* before it; each such maximal run gives exactly one temperature_breach
\* anomaly, high, anchored at the run's first point and reporting the run's
\* lowest (too_cold) or highest (too_hot) reading.
C10_GapToPreviousBreach ==
    \A e \in Entries("temperature") :
        LET route == ActualRoute(shipment)
            breaches == Picked(route, Breaching(route))
            starts == GroupStarts(breaches, BreachGap)
            out == runs[e].anomalies
        IN  (AllWellFormed(route) /\ NonDecreasing(route)) =>
                /\ Len(out) = Cardinality(starts)
                /\ \A g \in 1..Len(out) :
                      LET first == Kth(starts, g)
                          last == GroupEnd(starts, g, Len(breaches))
                      IN  /\ out[g].type = "temperature_breach"
                          /\ out[g].severity = "high"
                          /\ out[g].timestamp = breaches[first].timestamp
                          /\ out[g].location = Location(breaches[first])
                          /\ out[g].evidence =
                                Extreme(breaches, first, last, BreachType(breaches[first]))

\* C6: each pass that depends on chronology (unusual stops, speed grouping,
\* temperature grouping, projected delay) returns, for a route whose points
\* have distinct parsable timestamps supplied in any order, what it returns
\* for the same points in chronological order.
C6_OrderOfPointsIrrelevant ==
    \A e \in 1..Len(runs) :
        LET route == ActualRoute(shipment)
            ordered == [shipment EXCEPT !.actual_route = Chronological(route)]
        IN  (runs[e].call \in {"stops", "speed", "temperature", "delay"}
             /\ DistinctTimes(route)
             /\ \A i \in 1..Len(route) :
                   "timestamp" \in route[i].keys /\ route[i].timestamp.kind = "iso") =>
                runs[e].anomalies = RunPass(runs[e].call, ordered, detector, runs[e].at).anomalies

\* every waypoint and every point has a latitude geopy accepts
AllValid(s) ==
    /\ \A j \in 1..Len(PlannedRoute(s)) :
          /\ "latitude" \in PlannedRoute(s)[j].keys
          /\ ValidLatitude(PlannedRoute(s)[j].latitude)
    /\ \A i \in 1..Len(ActualRoute(s)) :
          /\ "latitude" \in ActualRoute(s)[i].keys
          /\ ValidLatitude(ActualRoute(s)[i].latitude)

Smallest(S) == CHOOSE x \in S : \A y \in S : x <= y

Largest(S) == CHOOSE x \in S : \A y \in S : x >= y

\* D: the largest, over the actual points, of the distance to the nearest waypoint
WorstDeviation(planned, actual) ==
    Largest({Smallest({KmPerDegree * Abs(actual[i].latitude - planned[j].latitude) :
                          j \in 1..Len(planned)}) : i \in 1..Len(actual)})

\* L: the length of the planned route
RECURSIVE PlannedLength(_)
PlannedLength(planned) ==
    IF Len(planned) < 2 THEN 0
    ELSE PlannedLength(SubSeq(planned, 1, Len(planned) - 1))
         + KmPerDegree * Abs(planned[Len(planned)].latitude
                             - planned[Len(planned) - 1].latitude)

\* C7: with D the largest distance of an actual point to its nearest planned
\* waypoint and L the planned length, the route-deviation pass returns exactly
\* one route_deviation anomaly when D/L > 0.2 and none otherwise (none when L
\* is 0); the anomaly is high exactly when D/L > 0.5, else medium.  Stated for
\* routes all of whose coordinates yield a distance.
C7_DeviationRatio ==
    \A e \in Entries("route") :
        LET planned == PlannedRoute(shipment)
            actual == ActualRoute(shipment)
            out == runs[e].anomalies
        IN  AllValid(shipment) =>
                /\ ~runs[e].raised
                /\ Len(out) <= 1
                /\ IF planned = <<>> \/ actual = <<>> THEN out = <<>>
                   ELSE LET D == WorstDeviation(planned, actual)
                            L == PlannedLength(planned)
                        IN  /\ (out # <<>>) <=> (L > 0 /\ 10 * D > 2 * L)
                            /\ out # <<>> =>
                                  /\ out[1].type = "route_deviation"
                                  /\ (out[1].severity = "high") <=> (10 * D > 5 * L)
                                  /\ (out[1].severity = "medium") <=> ~(10 * D > 5 * L)

\* a deviation of exactly half the planned length is reported as medium
C7_Witness ==
    \E e \in Entries("route") :
        /\ AllValid(shipment)
        /\ Len(runs[e].anomalies) = 1
        /\ runs[e].anomalies[1].severity = "medium"
        /\ 2 * runs[e].anomalies[1].evidence = PlannedLength(PlannedRoute(shipment))

\* C1: detect_anomalies never raises to its caller, whatever the shipment
\* mapping lacks or garbles: every call returns a list.
C1_DetectNeverRaises ==
    \A e \in Entries("detect_anomalies") : ~runs[e].raised

\* C2: a result returned by analyze_shipment has anomaly_count equal to the
\* length of anomalies, and has_high_severity_anomalies true exactly when one
\* of the anomalies is of severity high.
C2_CountAndHighFlag ==
    result.kind = "ok" =>
        LET data == result.data[1]
        IN  /\ {"anomalies", "anomaly_count", "has_high_severity_anomalies"} \subseteq data.keys
            /\ data.anomaly_count = Len(data.anomalies)
            /\ data.has_high_severity_anomalies
                  <=> (\E i \in 1..Len(data.anomalies) : data.anomalies[i].severity = "high")

\* a result with a high and a lesser anomaly, and one with anomalies none of them high
C2_Witness ==
    /\ result.kind = "ok"
    /\ result.data[1].anomaly_count >= 2
    /\ \E i, j \in 1..Len(result.data[1].anomalies) :
          /\ result.data[1].anomalies[i].severity = "high"
          /\ result.data[1].anomalies[j].severity = "low"

RoutesEmpty(s) == PlannedRoute(s) = <<>> /\ ActualRoute(s) = <<>>

DemoChecksOnly == {"demo_status", "demo_hazardous", "demo_id"}

ChecksOf(anoms) == {anoms[i].check : i \in 1..Len(anoms)}

\* C3 as claimed: with planned_route and actual_route both empty,
\* detect_anomalies returns only anomalies of the three status/id
\* demonstration checks, and two runs on the same shipment return the same list.
C3_OnlyDemonstrationAnomalies ==
    \A e \in Entries("detect_anomalies") :
        (RoutesEmpty(shipment) /\ ~runs[e].raised) =>
            /\ ChecksOf(runs[e].anomalies) \subseteq DemoChecksOnly
            /\ \A f \in Entries("detect_anomalies") :
                  ~runs[f].raised => runs[f].anomalies = runs[e].anomalies

\* the checks that stamp their anomaly with the current time
ClockStamped == {"fraud_value", "delay_overdue"}

\* C3 as amended: with planned_route and actual_route both empty, the list
\* detect_anomalies returns holds only anomalies of the three demonstration
\* checks, of the value-deviation fraud check and of the delivered and
\* overdue branches of the delay pass, none of a pass that reads the routes;
\* two runs on the same shipment return the same list whenever neither list
\* holds an anomaly of the value-deviation or the overdue check, which are
\* stamped with the current time.
C3_NoRouteAnomalies ==
    \A e \in Entries("detect_anomalies") :
        (RoutesEmpty(shipment) /\ ~runs[e].raised) =>
            /\ ChecksOf(runs[e].anomalies) \subseteq
                  DemoChecksOnly \cup {"fraud_value", "delay_delivered", "delay_overdue"}
            /\ \A f \in Entries("detect_anomalies") :
                  (/\ ~runs[f].raised
                   /\ ChecksOf(runs[e].anomalies) \cap ClockStamped = {}
                   /\ ChecksOf(runs[f].anomalies) \cap ClockStamped = {}) =>
                      runs[f].anomalies = runs[e].anomalies

\* a delivered shipment without routes, reported late by the delay pass in
\* two runs at different times
C3_Witness ==
    /\ RoutesEmpty(shipment)
    /\ Len(runs) = 2
    /\ runs[1].at < runs[2].at
    /\ \A e \in 1..2 :
          /\ runs[e].call = "detect_anomalies"
          /\ ~runs[e].raised
          /\ "delay_delivered" \in ChecksOf(runs[e].anomalies)
          /\ "demo_status" \notin ChecksOf(runs[e].anomalies)

\* the pass a check belongs to, by its place in the result
PassRank(check) ==
    CASE check \in DemoChecksOnly -> 0
      [] check = "route" -> 1
      [] check = "stops" -> 2
      [] check = "speed" -> 3
      [] check \in {"fraud_value", "fraud_revisit"} -> 4
      [] check \in {"delay_delivered", "delay_overdue", "delay_projected"} -> 5
      [] check = "temperature" -> 6

PassName(rank) ==
    CASE rank = 0 -> "demo" [] rank = 1 -> "route" [] rank = 2 -> "stops"
      [] rank = 3 -> "speed" [] rank = 4 -> "fraud" [] rank = 5 -> "delay"
      [] rank = 6 -> "temperature"

\* the anomalies of one pass, in the order they have in the list
OfPass(anoms, rank) ==
    Picked(anoms, {i \in 1..Len(anoms) : PassRank(anoms[i].check) = rank})

\* C4: the list detect_anomalies returns is a flat concatenation: the
\* demonstration checks first, then route deviation, unusual stops, speed,
\* fraud, delay, temperature in this order; the anomalies of a pass are
\* contiguous and in the order the pass emitted them, and every anomaly of
\* the list belongs to exactly one pass.
C4_FlatConcatenationInPassOrder ==
    \A e \in Entries("detect_anomalies") :
        ~runs[e].raised =>
            LET out == runs[e].anomalies
            IN  /\ \A i, j \in 1..Len(out) :
                      i < j => PassRank(out[i].check) <= PassRank(out[j].check)
                /\ \A rank \in 0..6 :
                      OfPass(out, rank)
                          = RunPass(PassName(rank), shipment, detector, runs[e].at).anomalies

\* a list with anomalies of the demonstration checks and of five telemetry passes
C4_Witness ==
    \E e \in Entries("detect_anomalies") :
        /\ ~runs[e].raised
        /\ {"demo_id", "route", "stops", "speed", "fraud_value", "fraud_revisit",
            "delay_delivered", "temperature"} \subseteq ChecksOf(runs[e].anomalies)

AddedKeys == {"anomalies", "anomaly_count", "has_high_severity_anomalies"}

\* C5: a detect_anomalies call leaves the shipment mapping (every field and
\* every route point) and the detector (thresholds, historical data) as they
\* were, so each of two calls interleaved on one detector returns the list
\* it returns when run alone; analyze_shipment returns the shipment's fields
\* plus anomalies, anomaly_count and has_high_severity_anomalies and leaves
\* its input mapping as it was.
C5_NoSideEffects ==
    /\ [][/\ shipment' = shipment
          /\ detector' = detector
          /\ \A c \in Callers :
                calls[c].pc = "running" => calls'[c].shipment = calls[c].shipment]_vars
    /\ [](\A c \in Callers :
             calls[c].pc = "returned" => calls[c].anomalies = calls[c].alone)
    /\ [](result.kind = "ok" =>
             /\ result.data[1].keys = shipment.keys \cup AddedKeys
             /\ [result.data[1] EXCEPT
                    !.keys = shipment.keys,
                    !.anomalies = shipment.anomalies,
                    !.anomaly_count = shipment.anomaly_count,
                    !.has_high_severity_anomalies = shipment.has_high_severity_anomalies]
                = shipment)

\* two overlapping calls on different shipments have returned their lists, and
\* detect_anomalies and analyze_shipment have both run on the caller's shipment
C5_Witness ==
    /\ \A c \in Callers :
          /\ calls[c].pc = "returned"
          /\ calls[c].overlapped
          /\ calls[c].anomalies # <<>>
    /\ calls[1].shipment # calls[2].shipment
    /\ result.kind = "ok"
    /\ result.data[1].anomalies # <<>>
    /\ runs # <<>>
    /\ shipment.actual_route # <<>>

----------------------------------------------------------------------------
(* The delay pass on delivered and overdue shipments *)

Offsets == {"naive", "Z", "offset"}

\* minutes: estimates as far as a day and a minute before the first clock reading
EstimateTimes == {0 - 1441, 0 - 1440, 0 - 481, 0 - 480, 0 - 1, 0, 50}

\* minutes from the estimate to the actual arrival: both sides of 2 h, 8 h and 24 h
Lateness == {0 - 5, 120, 121, 480, 481, 1440, 1441}

DelayShipments ==
    {[Carrying(<<>>, <<>>) EXCEPT
        !.status = status,
        !.keys = @ \cup {"estimated_arrival_time"} \cup arrived,
        !.estimated_arrival_time = Ts(estimate, tz_estimated),
        !.actual_arrival_time = Ts(estimate + late, tz_actual)] :
        status \in {"delivered", "in_transit"},
        arrived \in {{}, {"actual_arrival_time"}},
        estimate \in EstimateTimes, late \in Lateness,
        tz_estimated \in Offsets, tz_actual \in Offsets}

InitDelay == InitWith(DelayShipments, {NoHistoricalData})

NextDelay ==
    \/ Tick
    \/ CallDetectDelays

SpecDelay == InitDelay /\ [][NextDelay]_vars

Bands(minutes) ==
    IF minutes > 1440 THEN "high" ELSE IF minutes > 480 THEN "medium" ELSE "low"

\* both arrival times are present and are timestamps that can be subtracted
ArrivalsKnown(s) ==
    /\ {"estimated_arrival_time", "actual_arrival_time"} \subseteq s.keys
    /\ s.estimated_arrival_time.kind = "iso"
    /\ s.actual_arrival_time.kind = "iso"
    /\ (s.estimated_arrival_time.tz = "naive") = (s.actual_arrival_time.tz = "naive")

MinutesLate(s) == s.actual_arrival_time.t - s.estimated_arrival_time.t

C12_OverdueAlwaysEmits ==
    \A e \in Entries("delay") :
        (/\ Status(shipment) = "in_transit"
         /\ "estimated_arrival_time" \in shipment.keys
         /\ shipment.estimated_arrival_time.kind = "iso"
         /\ shipment.estimated_arrival_time.t < runs[e].at) =>
            LET out == runs[e].anomalies
                overdue == runs[e].at - shipment.estimated_arrival_time.t
            IN  /\ Len(out) = 1
                /\ out[1].type = "delay"
                /\ ~out[1].resolved
                /\ out[1].timestamp.t = runs[e].at
                /\ out[1].severity = Bands(overdue)

----------------------------------------------------------------------------
(* The fraud pass on routes that come back to a place *)

\* ten-thousandths of a degree: 0 and 4 round to 0.000, 6 and 10 to 0.001
Longitudes == {0, 4, 6, 10}

At(point, lon) == [point EXCEPT !.longitude = lon]

\* points at minute 10 * lat + lon; two without a timestamp, one without coordinates
RevisitPoints ==
    {At(Telemetry(lat, 10 * lat + lon, 60, 5), lon) : lat \in {1, 2}, lon \in Longitudes}
    \cup {Without(At(Telemetry(1, 0, 60, 5), lon), "timestamp") : lon \in {4, 6}}
    \cup {Without(Telemetry(2, 0, 60, 5), "latitude")}

RevisitShipments(longest) ==
    {Carrying(<<>>, actual) : actual \in SeqsUpTo(RevisitPoints, longest)}

InitFraud == InitWith(RevisitShipments(MaxRoute), {NoHistoricalData, PastShipments})

NextFraud ==
    \/ Tick
    \/ CallDetectPotentialFraud

SpecFraud == InitFraud /\ [][NextFraud]_vars

HasCoordinates(route) ==
    \A i \in 1..Len(route) : {"latitude", "longitude"} \subseteq route[i].keys

\* latitude and longitude to 3 decimals, in thousandths of a degree
AreaKey(point) ==
    <<1000 * point.latitude,
      CHOOSE k \in 0..2 : 10 * k - 5 < point.longitude /\ point.longitude < 10 * k + 5>>

\* the points of the route whose area an earlier point was in
Revisits(route) ==
    {i \in 1..Len(route) : \E j \in 1..(i - 1) : AreaKey(route[j]) = AreaKey(route[i])}

OfCheck(anoms, check) == SelectSeq(anoms, LAMBDA a : a.check = check)

\* C13: on a route of more than 2 points (all with coordinates), the route
\* revisit check returns exactly one potential_fraud anomaly of severity
\* medium, placed at the first point whose coordinates rounded to 3 decimals
\* equal those of an earlier point, and nothing when no rounded coordinates
\* repeat; a later revisit adds no second anomaly, and a route of 2 or fewer
\* points gives none.
C13_FirstRevisitOnly ==
    \A e \in Entries("fraud") :
        LET route == ActualRoute(shipment)
            out == OfCheck(runs[e].anomalies, "fraud_revisit")
        IN  HasCoordinates(route) =>
                IF Len(route) > 2 /\ Revisits(route) # {}
                THEN LET first == CHOOSE i \in Revisits(route) :
                                      \A j \in Revisits(route) : i <= j
                     IN  /\ Len(out) = 1
                         /\ out[1].type = "potential_fraud"
                         /\ out[1].severity = "medium"
                         /\ out[1].location.present
                         /\ out[1].location.latitude = route[first].latitude
                         /\ out[1].location.longitude = route[first].longitude
                         /\ "timestamp" \in route[first].keys
                               => out[1].timestamp = route[first].timestamp
                         /\ "timestamp" \notin route[first].keys
                               => out[1].timestamp = Ts(runs[e].at, "naive")
                         /\ ~out[1].resolved
                ELSE out = <<>>

\* three points, the second and the third both back in the first one's area,
\* 0.0004 degrees from it: one anomaly, at the second
C13_Witness ==
    \E e \in Entries("fraud") :
        LET route == ActualRoute(shipment)
            out == OfCheck(runs[e].anomalies, "fraud_revisit")
        IN  /\ HasCoordinates(route)
            /\ Len(route) = 3
            /\ Revisits(route) = {2, 3}
            /\ route[1].longitude # route[2].longitude
            /\ Len(out) = 1
            /\ out[1].location.longitude = route[2].longitude

----------------------------------------------------------------------------
(* Every anomaly of every returned list *)

\* the lists detect_anomalies returned
ReturnedLists == {runs[e].anomalies : e \in {i \in Entries("detect_anomalies") : ~runs[i].raised}}

\* C14: in a list detect_anomalies returned, an anomaly is resolved only if
\* its type is delay and the shipment's status is delivered with an actual
\* arrival later than the estimate; every other anomaly is unresolved.
C14_ResolvedOnlyDeliveredLate ==
    \A list \in ReturnedLists : \A k \in 1..Len(list) :
        list[k].resolved =>
            /\ list[k].type = "delay"
            /\ Status(shipment) = "delivered"
            /\ {"estimated_arrival_time", "actual_arrival_time"} \subseteq shipment.keys
            /\ shipment.actual_arrival_time.t > shipment.estimated_arrival_time.t

\* a returned list with a resolved anomaly and an unresolved one
C14_Witness ==
    \E list \in ReturnedLists : \E j, k \in 1..Len(list) :
        /\ list[j].resolved
        /\ ~list[k].resolved

AnomalyTypes ==
    {"delay", "hazardous_material", "route_deviation", "unusual_stop", "speed_violation",
     "potential_fraud", "temperature_breach"}

Severities == {"low", "medium", "high"}

\* C15: every anomaly detect_anomalies returns has one of the seven types and
\* one of the three severities; a temperature breach and a value-deviation
\* fraud anomaly are high, a route-revisit fraud anomaly is medium, and a
\* projected-delay anomaly is not high.
C15_TypesAndSeverities ==
    \A list \in ReturnedLists : \A k \in 1..Len(list) :
        LET a == list[k]
        IN  /\ a.type \in AnomalyTypes
            /\ a.severity \in Severities
            /\ a.type = "temperature_breach" => a.severity = "high"
            /\ a.check = "fraud_value" => a.type = "potential_fraud" /\ a.severity = "high"
            /\ a.check = "fraud_revisit" => a.type = "potential_fraud" /\ a.severity = "medium"
            /\ a.type = "potential_fraud" => a.check \in {"fraud_value", "fraud_revisit"}
            /\ a.check = "delay_projected" => a.type = "delay" /\ a.severity # "high"

\* a projected delay of more than 24 hours was returned, and so were a
\* temperature breach and both kinds of fraud anomaly
C15_Witness ==
    \E list \in ReturnedLists : \E i, j, k, l \in 1..Len(list) :
        /\ list[i].check = "delay_projected"
        /\ list[i].evidence > 1440
        /\ list[j].type = "temperature_breach"
        /\ list[k].check = "fraud_value"
        /\ list[l].check = "fraud_revisit"

----------------------------------------------------------------------------
(* Detectors built with and without a historical dataset *)

Paths ==
    {NoPath, PathTo("empty", <<>>), PathTo("missing", <<>>),
     PathTo("unreadable", PastShipments.rows), PathTo("file", PastShipments.rows)}

BaselineShipments == {s \in WholeShipments : s.id \in {<<>>, <<"S", "1">>}}

InitBaseline ==
    /\ shipment \in BaselineShipments
    /\ detector \in {Construct(path) : path \in Paths}
    /\ now = 0
    /\ runs = <<>>
    /\ result = NoResult
    /\ calls = [c \in Callers |-> Idle]
    /\ input_dir = NoDirectory
    /\ output_dir = <<>>
    /\ incidents = <<>>
    /\ alerts = <<>>

NextBaseline ==
    \/ Tick
    \/ CallDetectAnomalies

SpecBaseline == InitBaseline /\ [][NextBaseline]_vars

NotOfCheck(anoms, check) == SelectSeq(anoms, LAMBDA a : a.check # check)

\* what a detector holding the dataset returns for the same shipment at the same time
WithDataset(s, clock) == DetectAnomalies(s, Construct(PathTo("file", PastShipments.rows)), clock)

\* C16: a detector built with no path, or with a path that does not exist or
\* cannot be read, is built all the same and holds no historical data; for
\* every shipment its value-deviation check returns nothing, and the rest of
\* what detect_anomalies does (the other anomalies, in order, and whether it
\* raises) is what a detector holding a dataset does.
C16_NoBaselineOnlyDropsValueCheck ==
    detector.historical_data_path.kind # "file" =>
        /\ ~detector.historical_data.loaded
        /\ detector.speed_threshold = 120
        /\ \A e \in Entries("detect_anomalies") :
              LET with == WithDataset(shipment, runs[e].at)
              IN  /\ runs[e].raised = with.raised
                  /\ OfCheck(runs[e].anomalies, "fraud_value") = <<>>
                  /\ runs[e].anomalies = NotOfCheck(with.anomalies, "fraud_value")

\* a detector built on a file that could not be read returned anomalies, and
\* with the dataset the same call would have added a value-deviation anomaly
C16_Witness ==
    /\ detector.historical_data_path.kind = "unreadable"
    /\ \E e \in Entries("detect_anomalies") :
          /\ runs[e].anomalies # <<>>
          /\ OfCheck(WithDataset(shipment, runs[e].at).anomalies, "fraud_value") # <<>>

----------------------------------------------------------------------------
(* The demonstration checks within detect_anomalies *)

\* the cargo, written out and lowered, holds the text hazardous
SaysHazardous(s) ==
    /\ {"cargo"} \subseteq s.keys
    /\ {"type"} \subseteq s.cargo.keys
    /\ s.cargo.type \in {"Hazardous Chemicals", "HAZARDOUS waste", "hazardous"}

EndsIn1To4(s) ==
    /\ "id" \in s.keys
    /\ s.id # <<>>
    /\ s.id[Len(s.id)] \in {"1", "2", "3", "4"}

\* the anomalies of one demonstration check that the call handed to its caller
Emitted(e, check) == IF runs[e].raised THEN <<>> ELSE OfCheck(runs[e].anomalies, check)

\* C17: whatever the telemetry passes and the other two checks do,
\* detect_anomalies hands back one delay anomaly (medium, unresolved) exactly
\* when the status is delayed, one hazardous_material anomaly (high) exactly
\* when the status is in_transit and the cargo says hazardous in any letter
\* case, and one route_deviation anomaly (low) exactly when the id ends in
\* 1, 2, 3 or 4.
C17_DemonstrationChecks ==
    \A e \in Entries("detect_anomalies") :
        LET status == Emitted(e, "demo_status")
            hazardous == Emitted(e, "demo_hazardous")
            id == Emitted(e, "demo_id")
        IN  /\ Len(status) = IF ("status" \in shipment.keys /\ shipment.status = "delayed")
                             THEN 1 ELSE 0
            /\ \A k \in 1..Len(status) :
                  /\ status[k].type = "delay"
                  /\ status[k].severity = "medium"
                  /\ ~status[k].resolved
            /\ Len(hazardous) = IF /\ "status" \in shipment.keys
                                   /\ shipment.status = "in_transit"
                                   /\ SaysHazardous(shipment)
                                THEN 1 ELSE 0
            /\ \A k \in 1..Len(hazardous) :
                  /\ hazardous[k].type = "hazardous_material"
                  /\ hazardous[k].severity = "high"
            /\ Len(id) = IF EndsIn1To4(shipment) THEN 1 ELSE 0
            /\ \A k \in 1..Len(id) :
                  /\ id[k].type = "route_deviation"
                  /\ id[k].severity = "low"

----------------------------------------------------------------------------
(* analyze_shipment on what is not a shipment mapping *)

InputShipments ==
    {[Carrying(<<>>, <<>>) EXCEPT !.id = id, !.status = status, !.cargo = cargo] :
        id \in Ids, status \in Statuses, cargo \in Cargos}

InitInput == InitWith(InputShipments, {NoHistoricalData, PastShipments})

NextInput ==
    \/ Tick
    \/ CallAnalyzeShipment
    \/ CallAnalyzeShipmentData

SpecInput == InitInput /\ [][NextInput]_vars

\* the argument is a str that is no JSON, or is or decodes to something other
\* than a mapping
NotAShipment(argument) ==
    \/ argument.kind \in {"list", "number"}
    \/ argument.kind = "text" /\ argument.decoded \in {"invalid", "list", "number", "string"}

\* C19: analyze_shipment handed a string that is not valid JSON, or a JSON
\* string or a value that is not a mapping (a list, a number), returns an
\* error result to its caller and does not raise.
C19_InvalidInputGivesErrorResult ==
    \A i \in 1..Len(result.argument) :
        NotAShipment(result.argument[i]) => result.kind = "error"

----------------------------------------------------------------------------
(* Directories of shipment files *)

MaxFiles == 2       \* files in the input directory

MaxRows == 2        \* rows of a .csv file

\* a delayed shipment S1, and one whose id is empty (line 71 raises on it)
FiledShipments ==
    {[Carrying(<<>>, <<>>) EXCEPT !.id = id, !.status = "delayed"] : id \in {<<>>, <<"S", "1">>}}

FiledValues ==
    {Value("mapping", m) : m \in FiledShipments}
    \cup {Text("invalid", EmptyMapping), Value("list", EmptyMapping)}
    \cup {Text("mapping", m) : m \in FiledShipments}

FiledRows == {Row(m.id, m.status, m.cargo) : m \in FiledShipments}

Files ==
    {JsonFile(TRUE, value) : value \in FiledValues}
    \cup {JsonFile(FALSE, Value("number", EmptyMapping)), OtherFile,
          CsvFile(FALSE, <<>>)}
    \cup {CsvFile(TRUE, rows) : rows \in SeqsUpTo(FiledRows, MaxRows)}

Directories(longest) ==
    {NoDirectory} \cup {[exists |-> TRUE, files |-> f] : f \in SeqsUpTo(Files, longest)}

InitBatch ==
    /\ shipment = Carrying(<<>>, <<>>)
    /\ detector \in {Construct(path) : path \in {NoPath, PathTo("file", PastShipments.rows)}}
    /\ now = 0
    /\ runs = <<>>
    /\ result = NoResult
    /\ calls = [c \in Callers |-> Idle]
    /\ input_dir \in Directories(MaxFiles)
    /\ output_dir = <<>>
    /\ incidents = <<>>
    /\ alerts = <<>>

NextBatch ==
    \/ Tick
    \/ CallProcessShipmentsDirectory

SpecBatch == InitBatch /\ [][NextBatch]_vars

RECURSIVE Sum(_, _)
Sum(f, S) == IF S = {} THEN 0 ELSE LET x == CHOOSE y \in S : TRUE IN f[x] + Sum(f, S \ {x})

\* the shipments analysed and written: the records of the output files that
\* are not error records
ShipmentsWritten ==
    Sum([k \in 1..Len(output_dir) |->
            Cardinality({j \in 1..Len(output_dir[k].records) :
                            output_dir[k].records[j].kind = "ok"})],
        1..Len(output_dir))

\* C18: process_shipments_directory returns the number of shipments analysed
\* and written: a file or row that cannot be parsed is skipped and not
\* counted, each shipment written is counted once, a result that is only an
\* error record is not counted, and a missing input directory gives 0.
C18_CountsShipmentsWritten ==
    result.kind = "count" =>
        /\ result.data[1] = ShipmentsWritten
        /\ ~input_dir.exists => result.data[1] = 0 /\ output_dir = <<>>

----------------------------------------------------------------------------
(* The alerts derived from the incidents *)

InitAlerts == InitWith({Carrying(<<>>, <<>>)}, {NoHistoricalData})

NextAlerts == AddIncident

SpecAlerts == InitAlerts /\ [][NextAlerts]_vars

\* the severity spells high, in any mix of upper and lower case
SpellsHigh(severity) ==
    /\ Len(severity) = 4
    /\ severity[1] \in {"h", "H"}
    /\ severity[2] \in {"i", "I"}
    /\ severity[3] \in {"g", "G"}
    /\ severity[4] \in {"h", "H"}

SpellsLow(severity) ==
    Len(severity) = 3 /\ severity[1] \in {"l", "L"} /\ severity[2] \in {"o", "O"}
    /\ severity[3] \in {"w", "W"}

SpellsMedium(severity) ==
    /\ Len(severity) = 6
    /\ severity[1] \in {"m", "M"} /\ severity[2] \in {"e", "E"} /\ severity[3] \in {"d", "D"}
    /\ severity[4] \in {"i", "I"} /\ severity[5] \in {"u", "U"} /\ severity[6] \in {"m", "M"}

HighIncidents == SelectSeq(incidents, LAMBDA row : SpellsHigh(row.severity))

\* C20: the score of an incident is 0.1 for low, 0.5 for medium, 0.9 for high
\* (in any letter case) and 0.3 for anything else; the alerts are, one for
\* one and in order, the incidents whose score is at least 0.8, which are the
\* incidents whose severity spells high: same id, type safety, priority high,
\* message the incident's description.
C20_AlertsForHighSeverity ==
    /\ \A i \in 1..Len(incidents) :
          LET severity == incidents[i].severity
              score == Scored(incidents)[i].risk_score
          IN  /\ SpellsLow(severity) => score = 1
              /\ SpellsMedium(severity) => score = 5
              /\ SpellsHigh(severity) => score = 9
              /\ ~(SpellsLow(severity) \/ SpellsMedium(severity) \/ SpellsHigh(severity))
                    => score = 3
    /\ Len(alerts) = Len(HighIncidents)
    /\ \A k \in 1..Len(alerts) :
          /\ alerts[k].id = HighIncidents[k].id
          /\ alerts[k].message = HighIncidents[k].description
          /\ alerts[k].type = "safety"
          /\ alerts[k].priority = "high"

\* a table with a HIGH incident and a medium one: one alert, for the first
C20_Witness ==
    /\ Len(incidents) = 2
    /\ incidents[1].severity = <<"H", "I", "G", "H">>
    /\ SpellsMedium(incidents[2].severity)
    /\ Len(alerts) = 1
    /\ alerts[1].message = incidents[1].description

----------------------------------------------------------------------------
(* Routes with a timestamp that cannot be used *)

\* the point has no timestamp, or one that is not an ISO-8601 string
TimestampUnusable(point) ==
    \/ "timestamp" \notin point.keys
    \/ point.timestamp.kind # "iso"

\* C21: when a point of an actual_route of at least 2 points has a missing or
\* unparsable timestamp, detect_anomalies returns a list without any
\* unusual_stop anomaly, and every other pass has contributed to that list
\* what it returns for the shipment.
C21_BadTimestampAbortsStopsOnly ==
    \A e \in Entries("detect_anomalies") :
        LET route == ActualRoute(shipment)
            out == runs[e].anomalies
        IN  (Len(route) >= 2 /\ \E i \in 1..Len(route) : TimestampUnusable(route[i])) =>
                /\ ~runs[e].raised
                /\ OfPass(out, 2) = <<>>
                /\ \A rank \in {0, 1, 3, 4, 5, 6} :
                      LET pass == RunPass(PassName(rank), shipment, detector, runs[e].at)
                      IN  ~pass.raised /\ OfPass(out, rank) = pass.anomalies

----------------------------------------------------------------------------
(* The speed pass: what each anomaly reports *)

\* speeds on both sides of 120 and of 144 km/h
GroupSpeeds == {100, 121, 144, 145}

\* points with a Z suffix; one whose timestamp has no offset, one whose
\* timestamp does not parse, one without coordinates
GroupPoints ==
    {Telemetry(t, t, speed, 5) : t \in {0, 4, 8}, speed \in GroupSpeeds}
    \cup {[Telemetry(4, 4, 145, 5) EXCEPT !.timestamp = Ts(4, "naive")],
          [Telemetry(4, 4, 145, 5) EXCEPT !.timestamp = BadTs],
          Without(Telemetry(4, 4, 145, 5), "latitude")}

GroupShipments(longest) == {Carrying(<<>>, actual) : actual \in SeqsUpTo(GroupPoints, longest)}

InitGroups == InitWith(GroupShipments(MaxRoute), {NoHistoricalData})

NextGroups == CallDetectSpeedViolations

SpecGroups == InitGroups /\ [][NextGroups]_vars

\* the highest speed among violations first..last
TopSpeed(violations, first, last) == Largest({violations[k].speed : k \in first..last})

\* C22: the speed_violation anomalies of a route (coordinates and timestamps
\* with a Z suffix throughout) stand one for one, in order, for consecutive
\* groups that divide the violating points: each anomaly is high exactly when
\* the highest speed of its group is above 144 km/h and medium otherwise,
\* reports that speed, and carries the timestamp and the location of the
\* group's first violation.
C22_SeverityAndAnchorOfGroup ==
    \A e \in Entries("speed") :
        LET route == ActualRoute(shipment)
            violations == Picked(route, Speeding(route))
            out == runs[e].anomalies
        IN  AllWellFormed(route) =>
                \E starts \in SUBSET (1..Len(violations)) :
                    /\ violations # <<>> => 1 \in starts
                    /\ Cardinality(starts) = Len(out)
                    /\ \A g \in 1..Len(out) :
                          LET first == Kth(starts, g)
                              last == GroupEnd(starts, g, Len(violations))
                              top == TopSpeed(violations, first, last)
                          IN  /\ out[g].type = "speed_violation"
                              /\ (out[g].severity = "high") <=> (top > 144)
                              /\ (out[g].severity = "medium") <=> ~(top > 144)
                              /\ out[g].evidence = top
                              /\ out[g].timestamp = violations[first].timestamp
                              /\ out[g].location = Location(violations[first])
                              /\ ~out[g].resolved

\* a group of 121 and 144 km/h reported medium, then a group of 145 km/h
\* reported high
C22_Witness ==
    \E e \in Entries("speed") :
        LET route == ActualRoute(shipment)
            out == runs[e].anomalies
        IN  /\ AllWellFormed(route)
            /\ Len(route) = 3
            /\ route[1].speed = 121 /\ route[2].speed = 144 /\ route[3].speed = 145
            /\ Len(out) = 2
            /\ out[1].severity = "medium" /\ out[1].evidence = 144
            /\ out[1].timestamp = route[1].timestamp
            /\ out[2].severity = "high" /\ out[2].evidence = 145

\* every point has coordinates and a timestamp that parses
CoordinatesAndTimes(route) ==
    \A i \in 1..Len(route) :
        /\ {"latitude", "longitude", "timestamp"} \subseteq route[i].keys
        /\ route[i].timestamp.kind = "iso"

\* C28: for a route whose points all have coordinates and parsable
\* timestamps, the speed pass returns an anomaly exactly when some point is
\* faster than 120 km/h, never more anomalies than there are such points, and
\* every such point's speed is at most the speed some anomaly reports.
C28_NoViolationLost ==
    \A e \in Entries("speed") :
        LET route == ActualRoute(shipment)
            out == runs[e].anomalies
        IN  CoordinatesAndTimes(route) =>
                /\ ~runs[e].raised
                /\ (out # <<>>) <=> (Speeding(route) # {})
                /\ Len(out) <= Cardinality(Speeding(route))
                /\ \A i \in Speeding(route) :
                      \E k \in 1..Len(out) : route[i].speed <= out[k].evidence

----------------------------------------------------------------------------
(* The value-deviation check against the historical rows *)

\* historical rows whose values are all 0
WorthlessShipments ==
    HistoricalData(<<[origin_city |-> "A", destination_city |-> "B",
                      cargo_type |-> "electronics", cargo_value |-> 0]>>)

\* values on both sides of 0.7 and 1.3 times the mean 100 of the rows from A to B
CargoValues == {0, 69, 70, 100, 130, 131}

\* shipments between the cities of the rows and others, of the rows' cargo
\* types and others, with and without the keys type and value
ValueShipments ==
    {[Carrying(<<>>, <<>>) EXCEPT
        !.origin = Place({"city", "coordinates"}, from, 0),
        !.destination = Place({"city", "coordinates"}, to, 20),
        !.cargo = Cargo(keys, type, value, FALSE, NoRange)] :
        from \in {"A", "C"}, to \in {"B", "D"},
        keys \in {{"type", "value"}, {"value"}, {"type"}},
        type \in {"electronics", "furniture"}, value \in CargoValues}

InitValue == InitWith(ValueShipments, {NoHistoricalData, PastShipments, WorthlessShipments})

NextValue ==
    \/ Tick
    \/ CallDetectPotentialFraud

SpecValue == InitValue /\ [][NextValue]_vars

\* the historical rows on the shipment's lane, or of its cargo type if it names one
Matching(rows, s) ==
    {i \in 1..Len(rows) :
        \/ /\ rows[i].origin_city = s.origin.city
           /\ rows[i].destination_city = s.destination.city
        \/ /\ "type" \in s.cargo.keys
           /\ rows[i].cargo_type = s.cargo.type}

\* C23: with a dataset loaded and a cargo value present, the value check
\* returns exactly one potential_fraud anomaly, high, when the mean value of
\* the rows matching (origin and destination) or cargo type and the current
\* value are both positive and differ by more than 0.3 of the mean, and
\* nothing otherwise; so too for a cargo without a type key whose origin and
\* destination match rows.
C23_ValueDeviation ==
    \A e \in Entries("fraud") :
        (detector.historical_data.loaded /\ "value" \in shipment.cargo.keys) =>
            LET rows == detector.historical_data.rows
                matching == Matching(rows, shipment)
                count == Cardinality(matching)
                total == Sum([i \in 1..Len(rows) |-> rows[i].cargo_value], matching)
                value == shipment.cargo.value
                out == OfCheck(runs[e].anomalies, "fraud_value")
            IN  IF /\ count > 0 /\ total > 0 /\ value > 0
                   /\ 10 * Abs(value * count - total) > 3 * total
                THEN /\ Len(out) = 1
                     /\ out[1].type = "potential_fraud"
                     /\ out[1].severity = "high"
                ELSE out = <<>>

----------------------------------------------------------------------------
(* The delay pass on shipments still under way *)

\* points 1 degree (111 km) from the destination or at it; stopped, at 60
\* km/h, or without a speed
ProjectionPoints ==
    {Point(keys, lat, Ts(t, "naive"), speed, 5) :
        keys \in {PointKeys, PointKeys \ {"speed"}}, lat \in {19, 20},
        t \in {650, 761, 1181}, speed \in {0, 60}}
    \cup {Telemetry(20, 761, 60, 5), Telemetry(19, 1181, 60, 5)}

\* estimates 60 or 61 and 480 or 481 minutes before the points' times
ProjectionShipments(longest) ==
    {[Carrying(<<>>, actual) EXCEPT
        !.keys = @ \cup {"estimated_arrival_time"},
        !.estimated_arrival_time = estimate] :
        actual \in SeqsUpTo(ProjectionPoints, longest),
        estimate \in {Ts(700, "naive"), Ts(701, "naive"), Ts(700, "Z")}}

InitProjection == InitWith(ProjectionShipments(MaxRoute), {NoHistoricalData})

NextProjection == CallDetectDelays

SpecProjection == InitProjection /\ [][NextProjection]_vars

Reporting(route) == {i \in 1..Len(route) : "speed" \in route[i].keys}

\* C24: for an in-transit shipment not yet overdue, with a non-empty route
\* whose points have coordinates and timestamps, the delay pass projects the
\* arrival as the time of the latest point plus the distance from it to the
\* destination over the mean reported speed (60 km/h when no point reports
\* one), and returns exactly one delay anomaly (unresolved; medium above 8
\* hours of projected delay, else low) exactly when the projection is more
\* than 1 hour after the estimate; nothing when the mean speed is 0.
C24_ProjectedDelay ==
    \A e \in Entries("delay") :
        LET route == ActualRoute(shipment)
            out == runs[e].anomalies
        IN  (/\ Status(shipment) = "in_transit"
             /\ "estimated_arrival_time" \in shipment.keys
             /\ shipment.estimated_arrival_time.kind = "iso"
             /\ runs[e].at <= shipment.estimated_arrival_time.t
             /\ route # <<>>
             /\ CoordinatesAndTimes(route)) =>
                LET latest == Chronological(route)[Len(route)]
                    km == KmPerDegree * Abs(shipment.destination.latitude - latest.latitude)
                    count == IF Reporting(route) = {} THEN 1 ELSE Cardinality(Reporting(route))
                    total == IF Reporting(route) = {} THEN 60
                             ELSE Sum([i \in 1..Len(route) |-> route[i].speed], Reporting(route))
                    \* minutes of projected delay, times the sum of the speeds
                    late == (latest.timestamp.t - shipment.estimated_arrival_time.t) * total
                            + 60 * km * count
                IN  /\ ~runs[e].raised
                    /\ IF total > 0 /\ late > 60 * total
                       THEN /\ Len(out) = 1
                            /\ out[1].type = "delay"
                            /\ ~out[1].resolved
                            /\ out[1].severity = (IF late > 480 * total THEN "medium" ELSE "low")
                       ELSE out = <<>>

----------------------------------------------------------------------------
(* The delay pass within detect_anomalies *)

\* C25: the delay pass contributes at most one anomaly to a list
\* detect_anomalies returns, and none when estimated_arrival_time is absent,
\* when the status is neither delivered nor in_transit, or when the status is
\* delivered and actual_arrival_time is absent.
C25_AtMostOneDelay ==
    \A list \in ReturnedLists :
        LET delays == OfPass(list, 5)
        IN  /\ Len(delays) <= 1
            /\ \A k \in 1..Len(delays) : delays[k].type = "delay"
            /\ "estimated_arrival_time" \notin shipment.keys => delays = <<>>
            /\ Status(shipment) \notin {"delivered", "in_transit"} => delays = <<>>
            /\ (Status(shipment) = "delivered" /\ "actual_arrival_time" \notin shipment.keys)
                  => delays = <<>>

\* one in-transit shipment, analysed before its estimate (a projected delay
\* alone) and after it (an overdue delay alone)
C25_Witness ==
    /\ Len(runs) = 2
    /\ \A e \in 1..2 : runs[e].call = "detect_anomalies" /\ ~runs[e].raised
    /\ ChecksOf(OfPass(runs[1].anomalies, 5)) = {"delay_projected"}
    /\ ChecksOf(OfPass(runs[2].anomalies, 5)) = {"delay_overdue"}
    /\ Len(OfPass(runs[1].anomalies, 5)) = 1
    /\ Len(OfPass(runs[2].anomalies, 5)) = 1

----------------------------------------------------------------------------
(* The temperature pass: which cargos and which readings *)

\* cargos with and without the flag, and with a whole, a half and no range
RangeCargos ==
    {ColdChain,
     [ColdChain EXCEPT !.temperature_controlled = FALSE],
     [ColdChain EXCEPT !.keys = @ \ {"temperature_controlled"}],
     [ColdChain EXCEPT !.keys = @ \ {"temperature_range"}],
     [ColdChain EXCEPT !.temperature_range = TemperatureRange({"min"}, 2, 8)],
     [ColdChain EXCEPT !.temperature_range = TemperatureRange({}, 2, 8)]}

\* readings below, at and above the limits 2 and 8, 40 minutes apart; points
\* without a reading; a point above the range without coordinates
RangePoints ==
    {Telemetry(t, t, 60, temp) : t \in {0, 40}, temp \in {1, 2, 8, 9}}
    \cup {Without(Telemetry(t, t, 60, 1), "temperature") : t \in {0, 40}}
    \cup {Without(Telemetry(0, 0, 60, 9), "latitude")}

RangeShipments(longest) ==
    {[Carrying(<<>>, actual) EXCEPT !.cargo = cargo] :
        actual \in SeqsUpTo(RangePoints, longest), cargo \in RangeCargos}

InitRange == InitWith(RangeShipments(MaxRoute), {NoHistoricalData})

NextRange == CallDetectAnomalies

SpecRange == InitRange /\ [][NextRange]_vars

\* the cargo is flagged temperature-controlled and gives both limits
Eligible(s) ==
    /\ "cargo" \in s.keys
    /\ "temperature_controlled" \in s.cargo.keys
    /\ s.cargo.temperature_controlled = TRUE
    /\ "temperature_range" \in s.cargo.keys
    /\ "min" \in s.cargo.temperature_range.keys
    /\ "max" \in s.cargo.temperature_range.keys

\* the points with a reading strictly outside the limits
OutOfRange(s) ==
    {i \in 1..Len(ActualRoute(s)) :
        /\ "temperature" \in ActualRoute(s)[i].keys
        /\ \/ ActualRoute(s)[i].temperature < s.cargo.temperature_range.min
           \/ ActualRoute(s)[i].temperature > s.cargo.temperature_range.max}

\* C26: a returned list holds a temperature_breach anomaly exactly when the
\* cargo is temperature-controlled with both limits and some point carries a
\* reading strictly below min or strictly above max; each such anomaly is
\* placed at such a point and reports such a reading, and every such reading
\* is within what some anomaly reports.  Readings equal to a limit and points
\* without a reading are never reported.
C26_BreachOnlyOutsideRange ==
    \A e \in Entries("detect_anomalies") :
        ~runs[e].raised =>
            LET route == ActualRoute(shipment)
                out == SelectSeq(runs[e].anomalies, LAMBDA a : a.type = "temperature_breach")
                breaching == IF Eligible(shipment) THEN OutOfRange(shipment) ELSE {}
            IN  /\ (out # <<>>) <=> (breaching # {})
                /\ \A k \in 1..Len(out) :
                      \E i \in breaching :
                          /\ out[k].timestamp = route[i].timestamp
                          /\ out[k].location = Location(route[i])
                /\ \A k \in 1..Len(out) :
                      \E i \in breaching : out[k].evidence = route[i].temperature
                /\ \A i \in breaching :
                      \E k \in 1..Len(out) :
                          IF route[i].temperature < shipment.cargo.temperature_range.min
                          THEN out[k].evidence <= route[i].temperature
                          ELSE out[k].evidence >= route[i].temperature

\* a reading at a limit, a point without a reading and a reading of 9 against
\* the range 2..8: detect_anomalies returned one breach, for the last
C26_Witness ==
    \E e \in Entries("detect_anomalies") :
        LET route == ActualRoute(shipment)
            out == SelectSeq(runs[e].anomalies, LAMBDA a : a.type = "temperature_breach")
        IN  /\ ~runs[e].raised
            /\ Eligible(shipment)
            /\ Len(route) = 3
            /\ "temperature" \in route[1].keys /\ route[1].temperature = 8
            /\ "temperature" \notin route[2].keys
            /\ route[3].temperature = 9
            /\ Len(out) = 1
            /\ out[1].evidence = 9
            /\ out[1].timestamp = route[3].timestamp

----------------------------------------------------------------------------
(* Route points no distance can be computed for *)

\* the points of the actual route whose distance fails against every waypoint
WithoutCandidate(s) ==
    {i \in 1..Len(ActualRoute(s)) :
        \A j \in 1..Len(PlannedRoute(s)) :
            ~ValidLatitude(ActualRoute(s)[i].latitude)
            \/ ~ValidLatitude(PlannedRoute(s)[j].latitude)}

\* C27: an actual-route point whose distance fails against every planned
\* waypoint has no candidate: the route-deviation pass never reports it as
\* the point of worst deviation, and returns what it returns for the route
\* without such points.
C27_FailedPointNoCandidate ==
    \A e \in Entries("route") :
        LET actual == ActualRoute(shipment)
            failed == WithoutCandidate(shipment)
            others == Picked(actual, (1..Len(actual)) \ failed)
            out == runs[e].anomalies
        IN  (PlannedRoute(shipment) # <<>> /\ failed # {}) =>
                /\ ~runs[e].raised
                /\ \A k \in 1..Len(out) :
                      \A i \in failed : out[k].location # Location(actual[i])
                /\ out = DetectRouteDeviations([shipment EXCEPT !.actual_route = others],
                                               detector, runs[e].at).anomalies

----------------------------------------------------------------------------
(* The rows of a .csv file *)

\* the .csv files of the input directory that read_csv reads
ReadableCsv == {k \in 1..Len(input_dir.files) :
                   input_dir.files[k].ext = "csv" /\ input_dir.files[k].parses}

\* the rows whose analysis does not raise: those with an id that is not empty
SoundRows(file) == {j \in 1..Len(file.rows) : file.rows[j].id # <<>>}

\* C29: a row of a .csv file whose analysis raises (an empty id) affects only
\* that row: for every .csv file read, an output file is written that holds a
\* result for each of its other rows, and those rows are counted in the value
\* process_shipments_directory returns.
C29_RowFailureIsLocal ==
    result.kind = "count" =>
        /\ \A k \in ReadableCsv :
              SoundRows(input_dir.files[k]) # {} =>
                  \E w \in 1..Len(output_dir) :
                      /\ output_dir[w].from = k
                      /\ Len(output_dir[w].records)
                            = Cardinality(SoundRows(input_dir.files[k]))
        /\ result.data[1] >=
              Sum([k \in 1..Len(input_dir.files) |->
                      Cardinality(SoundRows(input_dir.files[k]))], ReadableCsv)

----------------------------------------------------------------------------
(* Shipments read from the rows of a .csv file *)

\* rows with and without telemetry and delivery times: a stop of 40 minutes,
\* a speed of 130 km/h, a reading of 10 degrees, a delivery 121 minutes late
CsvRows ==
    {Telemetered(Row(id, status, cargo), route.points, route.expected, route.actual) :
        id \in {<<"S", "1">>, <<"S", "7">>},
        status \in {"in_transit", "delivered", "delayed"},
        cargo \in {ColdChain, Cargo({"type", "value"}, "Hazardous Chemicals", 1000, FALSE, NoRange)},
        route \in {[points |-> <<>>, expected |-> EmptyTs, actual |-> EmptyTs],
                   [points |-> EventfulRoute, expected |-> Ts(50, "naive"),
                    actual |-> Ts(171, "naive")]}}

\* a directory holding one .csv file
CsvDirectories(longest) ==
    {[exists |-> TRUE, files |-> <<CsvFile(TRUE, rows)>>] : rows \in SeqsUpTo(CsvRows, longest)}

InitCsv ==
    /\ shipment = Carrying(<<>>, <<>>)
    /\ detector \in {Construct(path) : path \in {NoPath, PathTo("file", PastShipments.rows)}}
    /\ now = 0
    /\ runs = <<>>
    /\ result = NoResult
    /\ calls = [c \in Callers |-> Idle]
    /\ input_dir \in CsvDirectories(MaxRows)
    /\ output_dir = <<>>
    /\ incidents = <<>>
    /\ alerts = <<>>

NextCsv ==
    \/ Tick
    \/ CallProcessShipmentsDirectory

SpecCsv == InitCsv /\ [][NextCsv]_vars

\* C30: every result written for a row of a .csv file carries the row's
\* telemetry and times under route_points, expected_delivery and
\* actual_delivery, has none of the keys planned_route, actual_route,
\* estimated_arrival_time and actual_arrival_time, and holds anomalies of the
\* three status/id demonstration checks only, whatever the row contains.
C30_CsvRowsOnlyDemonstrationChecks ==
    \A w \in 1..Len(output_dir) :
        LET file == input_dir.files[output_dir[w].from]
            records == output_dir[w].records
        IN  file.ext = "csv" =>
                /\ Len(records) = Len(file.rows)
                /\ \A j \in 1..Len(records) :
                      /\ records[j].kind = "ok"
                      /\ LET data == records[j].data[1]
                         IN  /\ {"route_points", "expected_delivery", "actual_delivery"}
                                   \subseteq data.keys
                             /\ data.route_points = file.rows[j].route_points
                             /\ data.expected_delivery = file.rows[j].expected_delivery
                             /\ data.actual_delivery = file.rows[j].actual_delivery
                             /\ data.keys \cap {"planned_route", "actual_route",
                                                "estimated_arrival_time",
                                                "actual_arrival_time"} = {}
                             /\ ChecksOf(data.anomalies) \subseteq DemoChecksOnly
                             /\ data.anomaly_count = Len(data.anomalies)

\* a delivered cold-chain shipment S1 with a stop, a speed violation, a
\* temperature out of range and a late delivery in its row: the result
\* written for it holds the id anomaly alone
C30_Witness ==
    \E w \in 1..Len(output_dir) : \E j \in 1..Len(output_dir[w].records) :
        LET row == input_dir.files[output_dir[w].from].rows[j]
            data == output_dir[w].records[j].data[1]
        IN  /\ row.route_points = EventfulRoute
            /\ row.cargo = ColdChain
            /\ row.status = "delivered"
            /\ row.actual_delivery.t - row.expected_delivery.t > 120
            /\ detector.historical_data.loaded
            /\ ChecksOf(data.anomalies) = {"demo_id"}

====
